---- MODULE Spec2Model ----
(***************************************************************************)
(* Model of the 4C mailbox configurator: the KonvaStateService store       *)
(* (levels, walls, frames, doors, active pointers, subscribers), the       *)
(* KonvaConfiguratorComponent handlers that drive it, and the cabinet      *)
(* editor modal that edits one frame.                                      *)
(*                                                                         *)
(* JavaScript objects are shared by reference, so frames, door arrays and  *)
(* doors live in a heap (frameObj, doorsArr, doorObj) and the store holds  *)
(* references.  Reference 0 is null.  After every step the objects that    *)
(* nothing refers to any more are dropped and the remaining ones are       *)
(* renumbered in the order the snapshot reaches them, so that two heaps    *)
(* of the same shape are the same state.                                   *)
(***************************************************************************)
EXTENDS Integers, Sequences, FiniteSets, TLC

(***************************************************************************)
(* Bounds of the model.                                                    *)
(***************************************************************************)
MaxLevelId == 1         \* addLevel is cut off above this level_id
MaxWallId == 2          \* addLevel / addWall are cut off above this wall_id
MaxSubscribers == 1     \* observers of state$
MaxFrames == 1          \* frames in the whole project
MaxDoors == 3           \* doors of a frame, beyond which the editor creates none

(***************************************************************************)
(* Values.                                                                 *)
(***************************************************************************)
Undefined == -1         \* an optional number that is not set
Null == 0               \* the null reference / null id
Detached == Undefined   \* a reference to a Door that no Door[] holds any more

Subscribers == 1..MaxSubscribers

\* Math.round(x / 3.5) on lengths kept in quarter inches (3.5 in = 14 quarters).
DOOR_UNIT_Q == 14

(***************************************************************************)
(* Door-unit catalog: DOOR_CONFIGS and getDoorUnits.  The lookup is by the *)
(* exact key, so an upper-case code is unknown and counts one unit.        *)
(***************************************************************************)
DoorCodes == {"sd", "dd", "td", "p2", "md"}

DOOR_CONFIGS ==
  [c \in DoorCodes |->
     CASE c = "sd" -> 1
       [] c = "dd" -> 2
       [] c = "td" -> 3
       [] c = "p2" -> 2
       [] c = "md" -> 1]

getDoorUnits(name) == IF name \in DoorCodes THEN DOOR_CONFIGS[name] ELSE 1

toLowerCase(s) ==
  CASE s = "SD" -> "sd"
    [] s = "DD" -> "dd"
    [] s = "TD" -> "td"
    [] s = "P2" -> "p2"
    [] s = "MD" -> "md"
    [] OTHER -> s

toUpperCase(s) ==
  CASE s = "sd" -> "SD"
    [] s = "dd" -> "DD"
    [] s = "td" -> "TD"
    [] s = "p2" -> "P2"
    [] s = "md" -> "MD"
    [] OTHER -> s

(***************************************************************************)
(* Frame catalog: the parsed FrameDefinition records handed to the         *)
(* component.  height is in quarter inches: a double column of three       *)
(* units, a single and a double door on the left, a triple door on the     *)
(* right.                                                                  *)
(***************************************************************************)
Catalog ==
  << [leftColumn |-> <<"sd", "dd">>, rightColumn |-> <<"td">>, height |-> 42,
      width |-> 16] >>

(***************************************************************************)
(* Sequence helpers.                                                       *)
(***************************************************************************)
Range(s) == {s[i] : i \in DOMAIN s}

SetMax(S) == CHOOSE x \in S : \A y \in S : y <= x

SetMin(S) == CHOOSE x \in S : \A y \in S : x <= y

\* Array.prototype.findIndex, 1-based; 0 when nothing matches.
FindIndex(s, Test(_)) ==
  IF \E i \in DOMAIN s : Test(s[i])
  THEN SetMin({i \in DOMAIN s : Test(s[i])})
  ELSE 0

\* Array.prototype.splice(at, 0, x) with a 0-based index `at`.
InsertAt(s, at, x) ==
  LET k == IF at > Len(s) THEN Len(s) ELSE at
  IN SubSeq(s, 1, k) \o <<x>> \o SubSeq(s, k + 1, Len(s))

\* Array.prototype.splice(at, 1) with a 0-based index `at`.
RemoveAt(s, at) ==
  IF at + 1 \in DOMAIN s
  THEN SubSeq(s, 1, at) \o SubSeq(s, at + 2, Len(s))
  ELSE s

RECURSIVE SumSeq(_)
SumSeq(s) == IF s = <<>> THEN 0 ELSE Head(s) + SumSeq(Tail(s))

\* The smallest positive number not in S: an id nothing uses.
Fresh(S) == SetMin({n \in 1..(Cardinality(S) + 1) : n \notin S})

\* The largest reference of a heap, 0 for the empty heap.
Top(heap) == IF DOMAIN heap = {} THEN 0 ELSE SetMax(DOMAIN heap)

\* s without the later occurrences of an element.
RECURSIVE Dedupe(_)
Dedupe(s) ==
  IF s = <<>> THEN <<>>
  ELSE LET init == Dedupe(SubSeq(s, 1, Len(s) - 1))
       IN IF s[Len(s)] \in Range(init) THEN init ELSE Append(init, s[Len(s)])

RECURSIVE Flatten(_)
Flatten(ss) == IF ss = <<>> THEN <<>> ELSE Head(ss) \o Flatten(Tail(ss))

\* The place of x in s (x occurs in s).
Rank(s, x) == SetMin({i \in DOMAIN s : s[i] = x})

VARIABLES
  state,            \* _state$.value, the ConfiguratorState snapshot
  storage,          \* localStorage item 'c4-konva-configurator-state'
  frameObj,         \* heap: Frame objects
  doorsArr,         \* heap: Door[] arrays
  doorObj,          \* heap: Door objects
  subscribers,      \* observers of state$
  notified,         \* per observer: deliveries during the last handler
  lastSeen,         \* per observer: the snapshot delivered last
  lastCall,         \* the last handler run, its arguments and its outcome
  selectedFrameId,  \* KonvaConfiguratorComponent.selectedFrameId
  isEditorOpen,     \* KonvaConfiguratorComponent.isEditorOpen
  editingFrame,     \* KonvaConfiguratorComponent.editingFrame (= modal's frame)
  selectedDoor,     \* CabinetEditorModalComponent.selectedDoor
  openedContent,    \* the edited frame's doors as they were when the editor opened
  drag,             \* the frame drag under way: isReordering, dragStartIndex, ...
  measure,          \* measure mode: isMeasuringMode, the two points, the drawn lines
  probe             \* the arguments and the result of a function applied on its own

vars == << state, storage, frameObj, doorsArr, doorObj, subscribers, notified,
           lastSeen, lastCall, selectedFrameId, isEditorOpen, editingFrame,
           selectedDoor, openedContent, drag, measure, probe >>

canvasVars == << drag, measure, probe >>

componentVars == << selectedFrameId, isEditorOpen, editingFrame >>

editorVars == << selectedDoor, openedContent >>

(***************************************************************************)
(* Reading the snapshot.                                                   *)
(***************************************************************************)
LevelIds(st) == {st.levels[i].level_id : i \in DOMAIN st.levels}

AllWallIds(st) ==
  UNION {{st.levels[i].walls[j].wall_id : j \in DOMAIN st.levels[i].walls} :
           i \in DOMAIN st.levels}

\* levels.find(l => l.level_id === levelId), as an index; 0 is "not found".
LevelIndex(st, levelId) ==
  FindIndex(st.levels, LAMBDA l : l.level_id = levelId)

\* level.walls.find(w => w.wall_id === wallId), as an index; 0 is "not found".
WallIndex(level, wallId) ==
  FindIndex(level.walls, LAMBDA w : w.wall_id = wallId)

\* getActiveWall(): <<level index, wall index>>, or <<0, 0>> for null.
ActiveWallAt(st) ==
  LET li == LevelIndex(st, st.active_level_id)
  IN IF li = 0 THEN <<0, 0>>
     ELSE LET wi == WallIndex(st.levels[li], st.active_wall_id)
          IN IF wi = 0 THEN <<0, 0>> ELSE <<li, wi>>

\* The frames of the active wall, <<>> when getActiveWall() is null.
ActiveFrames(st) ==
  LET at == ActiveWallAt(st)
  IN IF at = <<0, 0>> THEN <<>> ELSE st.levels[at[1]].walls[at[2]].frames

FrameRefsOf(st) ==
  UNION {UNION {Range(st.levels[i].walls[j].frames) :
                  j \in DOMAIN st.levels[i].walls} : i \in DOMAIN st.levels}

TotalFrames(st) ==
  SumSeq([i \in DOMAIN st.levels |->
            SumSeq([j \in DOMAIN st.levels[i].walls |->
                      Len(st.levels[i].walls[j].frames)])])

(***************************************************************************)
(* INITIAL_STATE.  localStorage is empty when the service is constructed,  *)
(* so loadFromStorage() yields null and the store starts from it.          *)
(***************************************************************************)
INITIAL_STATE ==
  [levels |-> << [level_id |-> 0,
                  walls |-> << [wall_id |-> 0, frames |-> <<>>] >>] >>,
   active_level_id |-> 0,
   active_wall_id |-> 0,
   tenant_num_start |-> Undefined,
   parcel_num_start |-> Undefined]

(***************************************************************************)
(* JSON.stringify(state): the snapshot by value, references followed.      *)
(***************************************************************************)
SerializeFrame(f, fo, da, dobj) ==
  [id |-> fo[f].id, frame_id |-> fo[f].frame_id, height |-> fo[f].height,
   doors |-> [i \in DOMAIN da[fo[f].doors] |-> dobj[da[fo[f].doors][i]]]]

Serialize(st, fo, da, dobj) ==
  [st EXCEPT !.levels =
     [i \in DOMAIN st.levels |->
        [st.levels[i] EXCEPT !.walls =
           [j \in DOMAIN st.levels[i].walls |->
              [st.levels[i].walls[j] EXCEPT !.frames =
                 [k \in DOMAIN st.levels[i].walls[j].frames |->
                    SerializeFrame(st.levels[i].walls[j].frames[k], fo, da, dobj)]]]]]]


(***************************************************************************)
(* The heap after a step: the objects the snapshot, the component and the  *)
(* editor still refer to, numbered in the order they are reached.          *)
(***************************************************************************)
FramesInOrder(st) ==
  Flatten([i \in DOMAIN st.levels |->
             Flatten([j \in DOMAIN st.levels[i].walls |->
                        st.levels[i].walls[j].frames])])

FrameOrder(st, ef) ==
  Dedupe(FramesInOrder(st) \o (IF ef = Null THEN <<>> ELSE <<ef>>))

ArrayOrder(st, ef, fo) ==
  LET fs == FrameOrder(st, ef)
  IN Dedupe([i \in DOMAIN fs |-> fo[fs[i]].doors])

DoorOrder(st, ef, fo, da) ==
  LET as == ArrayOrder(st, ef, fo)
  IN Dedupe(Flatten([i \in DOMAIN as |-> da[as[i]]]))

RenumberState(st, fs) ==
  [st EXCEPT !.levels =
     [i \in DOMAIN st.levels |->
        [st.levels[i] EXCEPT !.walls =
           [j \in DOMAIN st.levels[i].walls |->
              [st.levels[i].walls[j] EXCEPT !.frames =
                 [k \in DOMAIN st.levels[i].walls[j].frames |->
                    Rank(fs, st.levels[i].walls[j].frames[k])]]]]]]

(***************************************************************************)
(* setState: install the snapshot, deliver it to every observer of state$  *)
(* (BehaviorSubject.next is synchronous), then saveToStorage.  A handler   *)
(* that calls setState n times delivers n snapshots, the last one being    *)
(* st; a handler that never calls it has n = 0 and leaves st = state.      *)
(* ef and sd are the component's editingFrame and the editor's             *)
(* selectedDoor after the handler; fo, da, dobj the heap it leaves.  A     *)
(* selected Door that no Door[] holds any more is kept as Detached: it is  *)
(* only ever compared with the doors of the edited frame.                  *)
(***************************************************************************)
Deliveries_twice(n) == 2 * n

Deliveries(n) == n

Install(newState, n, fo, da, dobj, ef, sd, fs, as, ds) ==
  /\ state' = newState
  /\ frameObj' = [r \in DOMAIN fs |-> [fo[fs[r]] EXCEPT !.doors = Rank(as, @)]]
  /\ doorsArr' = [r \in DOMAIN as |->
                    [k \in DOMAIN da[as[r]] |-> Rank(ds, da[as[r]][k])]]
  /\ doorObj' = [r \in DOMAIN ds |-> dobj[ds[r]]]
  /\ editingFrame' = IF ef = Null THEN Null ELSE Rank(fs, ef)
  /\ selectedDoor' = IF sd \in Range(ds) THEN Rank(ds, sd)
                     ELSE IF sd = Null THEN Null ELSE Detached
  /\ notified' = [s \in subscribers |-> Deliveries(n)]
  /\ lastSeen' = IF Deliveries(n) = 0 THEN lastSeen
                 ELSE [s \in subscribers |-> newState]

\* Each value is bound once (a singleton \E) before it is used.
setState(st0, n, fo0, da0, dobj0, ef, sd) ==
  \E st \in {st0}, fo \in {fo0}, da \in {da0}, dobj \in {dobj0} :
    \E fs \in {FrameOrder(st, ef)} :
      \E as \in {ArrayOrder(st, ef, fo)} :
        \E ds \in {DoorOrder(st, ef, fo, da)} :
          /\ Install(RenumberState(st, fs), n, fo, da, dobj, ef, sd, fs, as, ds)
          /\ storage' = IF n = 0 THEN storage
                        ELSE <<Serialize(st, fo, da, dobj)>>

\* A handler that returns before any setState and touches no object.
NoCommit ==
  setState(state, 0, frameObj, doorsArr, doorObj, editingFrame, selectedDoor)

\* The call just made: its arguments and its result and, for a removal,
\* the cursors it found.
Called(op, a, b, result) ==
  lastCall' = [op |-> op, a |-> a, b |-> b, result |-> result,
               active |-> IF op \in {"removeLevel", "removeWall"}
                          THEN << state.active_level_id, state.active_wall_id >>
                          ELSE << Undefined, Undefined >>]

(***************************************************************************)
(* KonvaStateService: levels.                                              *)
(***************************************************************************)
NewLevelId(st) ==
  IF Len(st.levels) > 0 THEN SetMax(LevelIds(st)) + 1 ELSE 0

\* newWallId taken as the number of walls of the project.
NewWallId_count(st) ==
  SumSeq([i \in DOMAIN st.levels |-> Len(st.levels[i].walls)])

NewWallId(st) ==
  IF AllWallIds(st) # {} THEN SetMax(AllWallIds(st)) + 1 ELSE 0

addLevel ==
  /\ NewLevelId(state) <= MaxLevelId
  /\ NewWallId(state) <= MaxWallId
  /\ LET newWall == [wall_id |-> NewWallId(state), frames |-> <<>>]
         newLevel == [level_id |-> NewLevelId(state), walls |-> <<newWall>>]
     IN setState([state EXCEPT !.levels = Append(@, newLevel)], 1,
                 frameObj, doorsArr, doorObj, editingFrame, selectedDoor)
  /\ Called("addLevel", Undefined, Undefined, "ok")
  /\ UNCHANGED << canvasVars, subscribers, selectedFrameId, isEditorOpen, openedContent >>

RemoveLevelAllowed_any(st, levelId) == Len(st.levels) > 1

\* "Cannot remove level 0" and "Must have at least 1 level".
RemoveLevelAllowed(st, levelId) == levelId # 0 /\ Len(st.levels) > 1

\* level?.walls[0]?.wall_id || 0, for a level index that may be 0 (not found).
FirstWallIdOf(lvls, li) ==
  IF li = 0 THEN 0
  ELSE IF Len(lvls[li].walls) = 0 THEN 0 ELSE lvls[li].walls[1].wall_id

RemoveLevelState(st, levelId) ==
  LET newLevels == SelectSeq(st.levels, LAMBDA l : l.level_id # levelId)
      newActiveLevelId ==
        IF st.active_level_id = levelId
        THEN newLevels[1].level_id ELSE st.active_level_id
      li == FindIndex(newLevels, LAMBDA l : l.level_id = newActiveLevelId)
  IN [st EXCEPT !.levels = newLevels,
                !.active_level_id = newActiveLevelId,
                !.active_wall_id = FirstWallIdOf(newLevels, li)]

removeLevel(levelId) ==
  /\ Called("removeLevel", levelId, Undefined,
            IF RemoveLevelAllowed(state, levelId) THEN "true" ELSE "false")
  /\ IF RemoveLevelAllowed(state, levelId)
     THEN setState(RemoveLevelState(state, levelId), 1,
                   frameObj, doorsArr, doorObj, editingFrame, selectedDoor)
     ELSE NoCommit
  /\ UNCHANGED << canvasVars, subscribers, selectedFrameId, isEditorOpen, openedContent >>

setActiveLevel(levelId) ==
  LET li == LevelIndex(state, levelId)
  IN /\ Called("setActiveLevel", levelId, Undefined,
               IF li = 0 THEN "throw" ELSE "ok")
     /\ IF li = 0
        THEN NoCommit
        ELSE setState([state EXCEPT !.active_level_id = levelId,
                         !.active_wall_id = FirstWallIdOf(state.levels, li)],
                      1, frameObj, doorsArr, doorObj, editingFrame, selectedDoor)
     /\ UNCHANGED << canvasVars, subscribers, selectedFrameId, isEditorOpen, openedContent >>

(***************************************************************************)
(* KonvaStateService: walls.                                               *)
(***************************************************************************)
addWall(levelId) ==
  LET li == LevelIndex(state, levelId)
      newWall == [wall_id |-> NewWallId(state), frames |-> <<>>]
  IN /\ li = 0 \/ NewWallId(state) <= MaxWallId
     /\ Called("addWall", levelId, Undefined, IF li = 0 THEN "throw" ELSE "ok")
     /\ IF li = 0
        THEN NoCommit
        ELSE setState([state EXCEPT !.levels =
                         [i \in DOMAIN state.levels |->
                            IF state.levels[i].level_id = levelId
                            THEN [state.levels[i] EXCEPT
                                    !.walls = Append(@, newWall)]
                            ELSE state.levels[i]]],
                      1, frameObj, doorsArr, doorObj, editingFrame, selectedDoor)
     /\ UNCHANGED << canvasVars, subscribers, selectedFrameId, isEditorOpen, openedContent >>

RemoveWallAllowed_empty(st, levelId) ==
  LET li == LevelIndex(st, levelId)
  IN li # 0 /\ Len(st.levels[li].walls) >= 1

\* The level exists and "Level must have at least 1 wall".
RemoveWallAllowed(st, levelId) ==
  LET li == LevelIndex(st, levelId)
  IN li # 0 /\ Len(st.levels[li].walls) > 1

RemoveWallState_last(st, levelId, wallId) ==
  LET updatedLevels ==
        [i \in DOMAIN st.levels |->
           IF st.levels[i].level_id = levelId
           THEN [st.levels[i] EXCEPT
                   !.walls = SelectSeq(@, LAMBDA w : w.wall_id # wallId)]
           ELSE st.levels[i]]
      li == FindIndex(updatedLevels, LAMBDA l : l.level_id = levelId)
      walls == updatedLevels[li].walls
  IN [st EXCEPT !.levels = updatedLevels,
                !.active_wall_id =
                   IF WallIndex(updatedLevels[li], st.active_wall_id) # 0
                   THEN st.active_wall_id
                   ELSE IF Len(walls) = 0 THEN 0 ELSE walls[Len(walls)].wall_id]

RemoveWallState(st, levelId, wallId) ==
  LET updatedLevels ==
        [i \in DOMAIN st.levels |->
           IF st.levels[i].level_id = levelId
           THEN [st.levels[i] EXCEPT
                   !.walls = SelectSeq(@, LAMBDA w : w.wall_id # wallId)]
           ELSE st.levels[i]]
      li == FindIndex(updatedLevels, LAMBDA l : l.level_id = levelId)
  IN [st EXCEPT !.levels = updatedLevels,
                !.active_wall_id =
                   IF WallIndex(updatedLevels[li], st.active_wall_id) # 0
                   THEN st.active_wall_id
                   ELSE FirstWallIdOf(updatedLevels, li)]

removeWall(levelId, wallId) ==
  /\ Called("removeWall", levelId, wallId,
            IF RemoveWallAllowed(state, levelId) THEN "true" ELSE "false")
  /\ IF RemoveWallAllowed(state, levelId)
     THEN setState(RemoveWallState(state, levelId, wallId), 1,
                   frameObj, doorsArr, doorObj, editingFrame, selectedDoor)
     ELSE NoCommit
  /\ UNCHANGED << canvasVars, subscribers, selectedFrameId, isEditorOpen, openedContent >>

\* The first level, in list order, that holds the wall; 0 when none does.
LevelIndexOfWall(st, wallId) ==
  FindIndex(st.levels, LAMBDA l : WallIndex(l, wallId) # 0)

setActiveWall(wallId) ==
  LET li == LevelIndexOfWall(state, wallId)
  IN /\ Called("setActiveWall", wallId, Undefined,
               IF li = 0 THEN "throw" ELSE "ok")
     /\ IF li = 0
        THEN NoCommit
        ELSE setState([state EXCEPT
                         !.active_level_id = state.levels[li].level_id,
                         !.active_wall_id = wallId],
                      1, frameObj, doorsArr, doorObj, editingFrame, selectedDoor)
     /\ UNCHANGED << canvasVars, subscribers, selectedFrameId, isEditorOpen, openedContent >>

(***************************************************************************)
(* KonvaStateService: frames and doors.  A Frame is                        *)
(* [id, frame_id, height, doors] with doors a reference to its Door[]; a   *)
(* Door is [position, door_type, column, label, substitute], "" standing   *)
(* for an absent string.                                                   *)
(***************************************************************************)
FrameIds(fo) == {fo[r].id : r \in DOMAIN fo}

\* generateId() / crypto.randomUUID(): an id no frame and no selection uses.
generateId(fo, sel) == Fresh(FrameIds(fo) \cup {sel})

\* levels.map(l => ({...l, walls: l.walls.map(w => w.wall_id === wallId ? g(w) : w)}))
MapWallFrames(st, wallId, G(_)) ==
  [st EXCEPT !.levels =
     [i \in DOMAIN st.levels |->
        [st.levels[i] EXCEPT !.walls =
           [j \in DOMAIN st.levels[i].walls |->
              IF st.levels[i].walls[j].wall_id = wallId
              THEN [st.levels[i].walls[j] EXCEPT !.frames = G(@)]
              ELSE st.levels[i].walls[j]]]]]

\* The doors addCabinetToWall builds: position is the index in the column.
NewDoors(def) ==
  [i \in 1..Len(def.leftColumn) |->
     [position |-> i - 1, door_type |-> def.leftColumn[i], column |-> "left",
      label |-> "", substitute |-> ""]]
  \o
  [i \in 1..Len(def.rightColumn) |->
     [position |-> i - 1, door_type |-> def.rightColumn[i], column |-> "right",
      label |-> "", substitute |-> ""]]

\* The heap with one more Door[] holding fresh Door objects.
WithDoors(da, dobj, doors) ==
  [da |-> Append(da, [k \in DOMAIN doors |-> Len(dobj) + k]),
   dobj |-> dobj \o doors]

addFrame(wallId, d) ==
  LET h == WithDoors(doorsArr, doorObj, NewDoors(Catalog[d]))
      newFrame == [id |-> generateId(frameObj, selectedFrameId), frame_id |-> d,
                   height |-> Catalog[d].height, doors |-> Len(h.da)]
      f == Len(frameObj) + 1
  IN /\ TotalFrames(state) < MaxFrames
     /\ setState(MapWallFrames(state, wallId, LAMBDA fs : Append(fs, f)), 1,
                 Append(frameObj, newFrame), h.da, h.dobj,
                 editingFrame, selectedDoor)
     /\ Called("addFrame", wallId, d, "ok")
     /\ UNCHANGED << canvasVars, subscribers, selectedFrameId, isEditorOpen, openedContent >>

RemoveFrameState(st, wallId, frameId, fo) ==
  MapWallFrames(st, wallId,
                LAMBDA fs : SelectSeq(fs, LAMBDA f : fo[f].id # frameId))

removeFrame(wallId, frameId) ==
  /\ setState(RemoveFrameState(state, wallId, frameId, frameObj), 1,
              frameObj, doorsArr, doorObj, editingFrame, selectedDoor)
  /\ Called("removeFrame", wallId, frameId, "ok")
  /\ UNCHANGED << canvasVars, subscribers, selectedFrameId, isEditorOpen, openedContent >>

\* The frames substituteDoor rebuilds: those of wall wallId with id frameId.
SubstitutedFrames(st, wallId, frameId, fo) ==
  LET all == FramesInOrder(MapWallFrames(
                 [st EXCEPT !.levels =
                    [i \in DOMAIN st.levels |->
                       [st.levels[i] EXCEPT !.walls =
                          SelectSeq(@, LAMBDA w : w.wall_id = wallId)]]],
                 wallId, LAMBDA fs : SelectSeq(fs, LAMBDA f : fo[f].id = frameId)))
  IN Dedupe(all)

substituteDoor(wallId, frameId, doorPosition, newDoorType) ==
  LET hit == SubstitutedFrames(state, wallId, frameId, frameObj)
      \* the k-th rebuilt frame gets frame reference nf(k), array na(k)
      nf(k) == Len(frameObj) + k
      na(k) == Len(doorsArr) + k
      oldDoors(k) == doorsArr[frameObj[hit[k]].doors]
      base(k) == Len(doorObj) + SumSeq([m \in 1..(k - 1) |-> Len(oldDoors(m))])
      \* f.doors.map: a matching door is copied with the substitute set,
      \* any other door stays the same object
      newArr(k) ==
        [i \in DOMAIN oldDoors(k) |->
           IF doorObj[oldDoors(k)[i]].position = doorPosition
           THEN base(k) + i ELSE oldDoors(k)[i]]
      copies(k) ==
        [i \in DOMAIN oldDoors(k) |->
           [doorObj[oldDoors(k)[i]] EXCEPT !.substitute = newDoorType]]
      fo == frameObj \o [k \in DOMAIN hit |->
                           [frameObj[hit[k]] EXCEPT !.doors = na(k)]]
      da == doorsArr \o [k \in DOMAIN hit |-> newArr(k)]
      dobj == doorObj \o Flatten([k \in DOMAIN hit |-> copies(k)])
      st == MapWallFrames(state, wallId,
              LAMBDA fs : [i \in DOMAIN fs |->
                             IF frameObj[fs[i]].id = frameId
                             THEN nf(Rank(hit, fs[i])) ELSE fs[i]])
  IN /\ setState(st, 1, fo, da, dobj, editingFrame, selectedDoor)
     /\ Called("substituteDoor", wallId, frameId, "ok")
     /\ UNCHANGED << canvasVars, subscribers, selectedFrameId, isEditorOpen, openedContent >>

setTenantNumStart(value) ==
  /\ setState([state EXCEPT !.tenant_num_start = value], 1,
              frameObj, doorsArr, doorObj, editingFrame, selectedDoor)
  /\ Called("setTenantNumStart", value, Undefined, "ok")
  /\ UNCHANGED << canvasVars, subscribers, selectedFrameId, isEditorOpen, openedContent >>

setParcelNumStart(value) ==
  /\ setState([state EXCEPT !.parcel_num_start = value], 1,
              frameObj, doorsArr, doorObj, editingFrame, selectedDoor)
  /\ Called("setParcelNumStart", value, Undefined, "ok")
  /\ UNCHANGED << canvasVars, subscribers, selectedFrameId, isEditorOpen, openedContent >>

(***************************************************************************)
(* updateAutoNumbering.                                                    *)
(***************************************************************************)
\* frame.doors.filter(d => d.column === 'left' || !d.column)
getLeftDoorsOf(arr, dobj) ==
  SelectSeq(arr, LAMBDA r : dobj[r].column = "left" \/ dobj[r].column = "")

\* frame.doors.filter(d => d.column === 'right')
getRightDoorsOf(arr, dobj) == SelectSeq(arr, LAMBDA r : dobj[r].column = "right")

\* ['md', 'bms', 'ms', 'om'].includes(doorType)
IsSpecialDoor(doorType) == doorType \in {"md", "bms", "ms", "om"}

\* sd, dd, td, qd, qud or htsd...
IsTenantDoor(doorType) == doorType \in {"sd", "dd", "td", "qd", "qud"}

\* Not a tenant door, and p<digits>, sp, lp, hopper, bin, hop..., td...
IsParcelDoor(doorType) ==
  ~IsTenantDoor(doorType) /\ doorType \in {"p2", "sp", "lp", "hopper", "bin"}

\* JSON.parse(JSON.stringify(frames)): every frame, its Door[] and its doors
\* copied into fresh objects.  The k-th copy is frame Len(fo) + k.
CloneFrames(fs, fo, da, dobj) ==
  LET doorsOf == [k \in DOMAIN fs |-> da[fo[fs[k]].doors]]
      base == [k \in DOMAIN fs |->
                 Len(dobj) + SumSeq([m \in 1..(k - 1) |-> Len(doorsOf[m])])]
  IN [frames |-> [k \in DOMAIN fs |-> Len(fo) + k],
      fo |-> fo \o [k \in DOMAIN fs |-> [fo[fs[k]] EXCEPT !.doors = Len(da) + k]],
      da |-> da \o [k \in DOMAIN fs |->
                      [i \in DOMAIN doorsOf[k] |-> base[k] + i]],
      dobj |-> dobj \o Flatten([k \in DOMAIN fs |->
                                  [i \in DOMAIN doorsOf[k] |-> dobj[doorsOf[k][i]]]])]

\* processDoor over the doors in the order they are visited.
RECURSIVE NumberDoors(_, _, _, _)
NumberDoors(order, tenantCounter, parcelCounter, dobj) ==
  IF order = <<>> THEN dobj
  ELSE LET r == Head(order)
           doorType == toLowerCase(dobj[r].door_type)
       IN IF IsSpecialDoor(doorType)
          THEN NumberDoors(Tail(order), tenantCounter, parcelCounter,
                           [dobj EXCEPT ![r].label = ""])
          ELSE IF IsParcelDoor(doorType)
          THEN NumberDoors(Tail(order), tenantCounter, parcelCounter + 1,
                           [dobj EXCEPT ![r].label = ToString(parcelCounter) \o "P"])
          ELSE NumberDoors(Tail(order), tenantCounter + 1, parcelCounter,
                           [dobj EXCEPT ![r].label = ToString(tenantCounter)])

\* The doors of the frames in visiting order: frame by frame, the left
\* column's doors, then the right column's.
VisitOrder(fs, fo, da, dobj) ==
  Flatten([k \in DOMAIN fs |->
             getLeftDoorsOf(da[fo[fs[k]].doors], dobj)
               \o getRightDoorsOf(da[fo[fs[k]].doors], dobj)])

\* updateAutoNumbering with the form's tenantStart and parcelStart.  It
\* calls setTenantNumStart, setParcelNumStart and updateWallFrames: three
\* setState calls.
updateAutoNumbering(tenantStart, parcelStart) ==
  LET at == ActiveWallAt(state)
      c == CloneFrames(ActiveFrames(state), frameObj, doorsArr, doorObj)
      st == MapWallFrames([state EXCEPT !.tenant_num_start = tenantStart,
                                        !.parcel_num_start = parcelStart],
                          state.active_wall_id, LAMBDA fs : c.frames)
  IN /\ ~isEditorOpen
     /\ IF at = <<0, 0>>
        THEN /\ NoCommit
             /\ Called("updateAutoNumbering", tenantStart, parcelStart, "none")
        ELSE /\ setState(st, 3, c.fo, c.da,
                         NumberDoors(VisitOrder(c.frames, c.fo, c.da, c.dobj),
                                     tenantStart, parcelStart, c.dobj),
                         editingFrame, selectedDoor)
             /\ Called("updateAutoNumbering", tenantStart, parcelStart, "ok")
     /\ UNCHANGED << canvasVars, subscribers, selectedFrameId, isEditorOpen, openedContent >>

\* The labels resetNumbering leaves on the doors refs: a door that is not
\* special has its label cleared.
ClearLabels_first(refs, dobj) ==
  [r \in DOMAIN dobj |->
     IF r \in Range(refs) /\ dobj[r].position = 0
        /\ ~IsSpecialDoor(toLowerCase(dobj[r].door_type))
     THEN [dobj[r] EXCEPT !.label = ""] ELSE dobj[r]]

ClearLabels(refs, dobj) ==
  [r \in DOMAIN dobj |->
     IF r \in Range(refs) /\ ~IsSpecialDoor(toLowerCase(dobj[r].door_type))
     THEN [dobj[r] EXCEPT !.label = ""] ELSE dobj[r]]

\* resetNumbering: the labels of a clone of the active wall's frames are
\* cleared and the clone is stored with updateWallFrames.
resetNumbering ==
  LET at == ActiveWallAt(state)
      c == CloneFrames(ActiveFrames(state), frameObj, doorsArr, doorObj)
      st == MapWallFrames(state, state.active_wall_id, LAMBDA fs : c.frames)
      refs == Flatten([k \in DOMAIN c.frames |-> c.da[c.fo[c.frames[k]].doors]])
  IN /\ ~isEditorOpen
     /\ IF at = <<0, 0>>
        THEN /\ NoCommit
             /\ Called("resetNumbering", Undefined, Undefined, "none")
        ELSE /\ setState(st, 1, c.fo, c.da, ClearLabels(refs, c.dobj),
                         editingFrame, selectedDoor)
             /\ Called("resetNumbering", Undefined, Undefined, "ok")
     /\ UNCHANGED << canvasVars, subscribers, selectedFrameId, isEditorOpen, openedContent >>

(***************************************************************************)
(* CabinetEditorModalComponent: the slot system.  The functions below read *)
(* the edited frame's Door[] arr (door references) and the door heap dobj. *)
(***************************************************************************)
\* door.column || 'left'
ColumnOf(door) == IF door.column = "" THEN "left" ELSE door.column

\* getDoorUnits(door.door_type.toLowerCase())
UnitsOf(door) == getDoorUnits(toLowerCase(door.door_type))

\* Math.round(frame.height / DOOR_UNIT), height in quarter inches.
TotalUnitsOf(frame) == (2 * frame.height + DOOR_UNIT_Q) \div (2 * DOOR_UNIT_Q)

getLeftDoors(arr, dobj) ==
  SelectSeq(arr, LAMBDA r : dobj[r].column = "left" \/ dobj[r].column = "")

getRightDoors(arr, dobj) == SelectSeq(arr, LAMBDA r : dobj[r].column = "right")

\* `${door.position}-${column}`
getDoorId(door) == << "door", door.position, ColumnOf(door) >>

\* `empty-${slotIndex}-${column}`
EmptySlotId(slotIndex, column) == << "empty", slotIndex, column >>

\* Array.prototype.sort (stable) by an integer key, key a function on s's elements.
RECURSIVE SortBy(_, _)
SortBy(s, key) ==
  IF s = <<>> THEN <<>>
  ELSE LET init == SortBy(SubSeq(s, 1, Len(s) - 1), key)
           x == s[Len(s)]
           notAfter == {i \in DOMAIN init : key[init[i]] <= key[x]}
           p == IF notAfter = {} THEN 0 ELSE SetMax(notAfter)
       IN SubSeq(init, 1, p) \o <<x>> \o SubSeq(init, p + 1, Len(init))

PositionKey(dobj) == [r \in DOMAIN dobj |-> dobj[r].position]

\* normalizeDoorPositions' offsets with every door counted as one unit.
CumulativeUnits_index(sorted, dobj) == [i \in DOMAIN sorted |-> i - 1]

\* The unit offsets normalizeDoorPositions gives a column sorted by position.
CumulativeUnits(sorted, dobj) ==
  [i \in DOMAIN sorted |->
     SumSeq([k \in 1..(i - 1) |-> UnitsOf(dobj[sorted[k]])])]

normalizeDoorPositions(arr, dobj) ==
  LET left == SortBy(getLeftDoors(arr, dobj), PositionKey(dobj))
      right == SortBy(getRightDoors(arr, dobj), PositionKey(dobj))
      leftAt == CumulativeUnits(left, dobj)
      rightAt == CumulativeUnits(right, dobj)
  IN [r \in DOMAIN dobj |->
        IF r \in Range(left)
        THEN [dobj[r] EXCEPT !.position = leftAt[Rank(left, r)]]
        ELSE IF r \in Range(right)
        THEN [dobj[r] EXCEPT !.position = rightAt[Rank(right, r)]]
        ELSE dobj[r]]

\* posMap.get(position): the map keeps the last index set for a position.
SequentialIndex(sorted, dobj, position) ==
  SetMax({i \in DOMAIN sorted : dobj[sorted[i]].position = position}) - 1

denormalizeDoorPositions(arr, dobj) ==
  LET left == SortBy(getLeftDoors(arr, dobj), PositionKey(dobj))
      right == SortBy(getRightDoors(arr, dobj), PositionKey(dobj))
  IN [r \in DOMAIN dobj |->
        IF r \in Range(left)
        THEN [dobj[r] EXCEPT !.position = SequentialIndex(left, dobj, @)]
        ELSE IF r \in Range(right)
        THEN [dobj[r] EXCEPT !.position = SequentialIndex(right, dobj, @)]
        ELSE dobj[r]]

\* onSave's comparator: left before right, then by position.
SaveKey(dobj) ==
  LET width == 1 + SetMax({0} \cup {dobj[r].position : r \in DOMAIN dobj})
  IN [r \in DOMAIN dobj |->
        (IF ColumnOf(dobj[r]) = "left" THEN 0 ELSE width) + dobj[r].position]

placeDoorInSlots(slots, r, dobj) ==
  [u \in DOMAIN slots |->
     IF dobj[r].position <= u /\ u < dobj[r].position + UnitsOf(dobj[r])
     THEN [door |-> IF u = dobj[r].position THEN r ELSE Null,
           isOccupiedByAbove |-> u > dobj[r].position]
     ELSE slots[u]]

RECURSIVE PlaceAll(_, _, _)
PlaceAll(slots, doors, dobj) ==
  IF doors = <<>> THEN slots
  ELSE PlaceAll(placeDoorInSlots(slots, Head(doors), dobj), Tail(doors), dobj)

\* initializeSlots: the slots of one column, indexed 0..totalUnits-1.
initializeSlots(column, totalUnits, arr, dobj) ==
  PlaceAll([u \in 0..(totalUnits - 1) |->
              [door |-> Null, isOccupiedByAbove |-> FALSE]],
           IF column = "left" THEN getLeftDoors(arr, dobj)
           ELSE getRightDoors(arr, dobj),
           dobj)

getEmptySlots(slots) ==
  {u \in DOMAIN slots : slots[u].door = Null /\ ~slots[u].isOccupiedByAbove}

\* hasEmptySlots that looks at the right column only.
hasEmptySlots_right(totalUnits, arr, dobj) ==
  getEmptySlots(initializeSlots("right", totalUnits, arr, dobj)) # {}

hasEmptySlots(totalUnits, arr, dobj) ==
  \/ getEmptySlots(initializeSlots("left", totalUnits, arr, dobj)) # {}
  \/ getEmptySlots(initializeSlots("right", totalUnits, arr, dobj)) # {}

findDoorOccupyingSlot(slots, slotIndex) ==
  LET above == {k \in 0..slotIndex : slots[k].door # Null}
  IN IF above = {} THEN Null ELSE slots[SetMax(above)].door

(***************************************************************************)
(* What renderCabinet draws: the left doors in array order, then the right *)
(* doors when there is one (isDoubleColumn).  A pointer is the middle of a *)
(* unit cell, << column, unit >>.                                          *)
(***************************************************************************)
isDoubleColumn(arr, dobj) == Len(getRightDoors(arr, dobj)) > 0

Shapes(arr, dobj) ==
  getLeftDoors(arr, dobj)
    \o (IF isDoubleColumn(arr, dobj) THEN getRightDoors(arr, dobj) ELSE <<>>)

DrawnColumn(door) == IF door.column = "right" THEN "right" ELSE "left"

\* The pointer lies in the rectangle the door is drawn in.
Covers(door, pointer) ==
  /\ DrawnColumn(door) = pointer[1]
  /\ door.position <= pointer[2]
  /\ pointer[2] < door.position + UnitsOf(door)

Pointers(totalUnits, arr, dobj) ==
  {<< "left", u >> : u \in 0..(totalUnits - 1)}
    \cup (IF isDoubleColumn(arr, dobj)
          THEN {<< "right", u >> : u \in 0..(totalUnits - 1)} ELSE {})

(***************************************************************************)
(* Hover while a palette door is dragged: which ids get highlighted and    *)
(* which get marked invalid.  name is the palette door's code.             *)
(***************************************************************************)
NoHighlight == [highlighted |-> {}, invalid |-> {}]

\* The units checkDoorHover counts for a drawn door: the code is looked up as is.
RawUnitsOf(door) == getDoorUnits(door.door_type)

checkDoorHover(target, name, arr, dobj) ==
  LET draggedUnits == getDoorUnits(name)
      targetUnits == RawUnitsOf(dobj[target])
      doorsInColumn ==
        SortBy(SelectSeq(Shapes(arr, dobj),
                         LAMBDA r : ColumnOf(dobj[r]) = ColumnOf(dobj[target])),
               PositionKey(dobj))
      startIndex == Rank(doorsInColumn, target)
      total == [i \in startIndex..Len(doorsInColumn) |->
                  SumSeq([k \in 1..(i - startIndex + 1) |->
                            RawUnitsOf(dobj[doorsInColumn[startIndex + k - 1]])])]
      enough == {i \in DOMAIN total : total[i] >= draggedUnits}
      ids(last) == {getDoorId(dobj[doorsInColumn[i]]) : i \in startIndex..last}
  IN IF draggedUnits = 1 \/ draggedUnits <= targetUnits
     THEN [highlighted |-> {getDoorId(dobj[target])}, invalid |-> {}]
     ELSE IF enough # {}
     THEN [highlighted |-> ids(SetMin(enough)), invalid |-> {}]
     ELSE [highlighted |-> {}, invalid |-> ids(Len(doorsInColumn))]

checkEmptySlotHover(startSlotIndex, column, name, totalUnits, arr, dobj) ==
  LET draggedUnits == getDoorUnits(name)
      slots == initializeSlots(column, totalUnits, arr, dobj)
      covered == {i \in startSlotIndex..(startSlotIndex + draggedUnits - 1) :
                    i < totalUnits}
      availableSlots == Cardinality(covered)
      occupying(i) == IF slots[i].door # Null THEN slots[i].door
                      ELSE findDoorOccupyingSlot(slots, i)
      affectedDoors ==
        {occupying(i) : i \in {j \in covered : j \notin getEmptySlots(slots)}}
          \ {Null}
      ids == IF affectedDoors = {} THEN {EmptySlotId(startSlotIndex, column)}
             ELSE {getDoorId(dobj[r]) : r \in affectedDoors}
  IN IF availableSlots = draggedUnits
        /\ startSlotIndex + draggedUnits <= totalUnits
     THEN [highlighted |-> ids, invalid |-> {}]
     ELSE [highlighted |-> {}, invalid |-> ids]

\* pointer is << column, unit >>, or <<>> when it is over nothing.
checkCabinetDoorHover(pointer, name, totalUnits, arr, dobj) ==
  LET shapes == Shapes(arr, dobj)
      leftDoors == SortBy(SelectSeq(shapes, LAMBDA r : dobj[r].column # "right"),
                          PositionKey(dobj))
      rightDoors == SortBy(SelectSeq(shapes, LAMBDA r : dobj[r].column = "right"),
                           PositionKey(dobj))
      both == leftDoors \o rightDoors
      found == FindIndex(both, LAMBDA r : Covers(dobj[r], pointer))
  IN IF pointer = <<>> THEN NoHighlight
     ELSE IF found # 0 THEN checkDoorHover(both[found], name, arr, dobj)
     ELSE checkEmptySlotHover(pointer[2], pointer[1], name, totalUnits, arr, dobj)

(***************************************************************************)
(* trySwapDoors, replaceDoors, createDoorAtSlot.                           *)
(***************************************************************************)
\* The three checks of trySwapDoors, door1 dragged onto door2.
SwapAllowed(door1, door2, totalUnits, arr, dobj) ==
  LET d1 == dobj[door1]
      d2 == dobj[door2]
      door1Column == IF d1.column = "" THEN "left" ELSE d1.column
      door2Column == IF d2.column = "" THEN "right" ELSE d2.column
      door1NewEnd == d2.position + UnitsOf(d1) - 1
      door2NewEnd == d1.position + UnitsOf(d2) - 1
      columnDoors == SelectSeq(arr, LAMBDA r : ColumnOf(dobj[r]) = door1Column)
      minPos == IF d1.position < d2.position THEN d1.position ELSE d2.position
      maxPos == SetMax({d1.position + UnitsOf(d1) - 1,
                        d2.position + UnitsOf(d2) - 1})
      inRange(x) == x >= minPos /\ x <= maxPos
  IN /\ door1Column = door2Column
     /\ ~(door1NewEnd >= totalUnits \/ door2NewEnd >= totalUnits)
     /\ \A i \in DOMAIN columnDoors :
          LET r == columnDoors[i]
          IN r = door1 \/ r = door2
             \/ ~(inRange(dobj[r].position)
                  \/ inRange(dobj[r].position + UnitsOf(dobj[r]) - 1))

\* findCabinetDoorAtPosition: the first drawn door, the dragged one aside,
\* whose rectangle holds the pointer; Null when there is none.
findCabinetDoorAtPosition(pointer, dragged, arr, dobj) ==
  LET others == SelectSeq(Shapes(arr, dobj), LAMBDA r : r # dragged)
      found == FindIndex(others, LAMBDA r : Covers(dobj[r], pointer))
  IN IF found = 0 THEN Null ELSE others[found]

ReplaceAllowed_always(newDoorUnits, totalFreedSlots) == TRUE

\* replaceDoors returns early when newDoorUnits > totalFreedSlots.
ReplaceAllowed(newDoorUnits, totalFreedSlots) ==
  ~(newDoorUnits > totalFreedSlots)

\* The doors replaceDoors removes: those whose id is in doorIdsToRemove.
doorsToRemoveObjects(doorIdsToRemove, arr, dobj) ==
  SelectSeq(arr, LAMBDA r : getDoorId(dobj[r]) \in doorIdsToRemove)

totalFreedSlots(doorIdsToRemove, arr, dobj) ==
  LET gone == doorsToRemoveObjects(doorIdsToRemove, arr, dobj)
  IN SumSeq([i \in DOMAIN gone |-> UnitsOf(dobj[gone[i]])])

minPosition(firstDoor, doorIdsToRemove, arr, dobj) ==
  LET gone == doorsToRemoveObjects(doorIdsToRemove, arr, dobj)
  IN SetMin({dobj[firstDoor].position}
              \cup {dobj[gone[i]].position : i \in DOMAIN gone})

\* The first drawn door whose id is among ids; Null when there is none.
FirstShapeIn(ids, arr, dobj) ==
  LET shapes == Shapes(arr, dobj)
      found == FindIndex(shapes, LAMBDA r : getDoorId(dobj[r]) \in ids)
  IN IF found = 0 THEN Null ELSE shapes[found]

(***************************************************************************)
(* KonvaConfiguratorComponent: the canvas handlers.  The editor modal      *)
(* covers the canvas, so the canvas handlers run only while it is closed;  *)
(* the window's keydown listener runs at any time.                         *)
(***************************************************************************)
\* handleDrop of cabinet d of the palette the catalog fills, then
\* addCabinetToWall(def, insertIndex), while the project holds fewer than
\* limit frames.
handleDropFrom(catalog, d, insertIndex, limit) ==
  LET at == ActiveWallAt(state)
      h == WithDoors(doorsArr, doorObj, NewDoors(catalog[d]))
      uuid == generateId(frameObj, selectedFrameId)
      newFrame == [id |-> uuid, frame_id |-> d,
                   height |-> catalog[d].height, doors |-> Len(h.da)]
      f == Len(frameObj) + 1
  IN /\ ~isEditorOpen
     /\ TotalFrames(state) < limit
     /\ insertIndex \in 0..Len(ActiveFrames(state))
     /\ IF at = <<0, 0>>
        THEN /\ NoCommit
             /\ Called("handleDrop", d, insertIndex, "alert")
             /\ UNCHANGED selectedFrameId
        ELSE /\ setState(MapWallFrames(state, state.active_wall_id,
                           LAMBDA fs : InsertAt(fs, insertIndex, f)), 1,
                         Append(frameObj, newFrame), h.da, h.dobj,
                         editingFrame, selectedDoor)
             /\ Called("handleDrop", d, insertIndex, "ok")
             /\ selectedFrameId' = uuid
     /\ UNCHANGED << canvasVars, subscribers, isEditorOpen, openedContent >>

handleDropUpTo(d, insertIndex, limit) ==
  handleDropFrom(Catalog, d, insertIndex, limit)

handleDrop(d, insertIndex) == handleDropUpTo(d, insertIndex, MaxFrames)

\* duplicateCabinet(selectedFrameId), from the click on the duplicate
\* button of the selected frame, while the project holds fewer than limit
\* frames.  The spread copies the members of the frame, its doors
\* reference among them; Date.now() gives an id no frame has yet.
duplicateCabinet(limit) ==
  LET frames == ActiveFrames(state)
      frameIndex == FindIndex(frames, LAMBDA f : frameObj[f].id = selectedFrameId)
      newId == generateId(frameObj, selectedFrameId)
      newFrame == [frameObj[frames[frameIndex]] EXCEPT !.id = newId]
      f == Len(frameObj) + 1
  IN /\ ~isEditorOpen
     /\ selectedFrameId # Null
     /\ TotalFrames(state) < limit
     /\ IF frameIndex = 0
        THEN /\ NoCommit
             /\ Called("duplicateCabinet", selectedFrameId, Undefined, "none")
             /\ UNCHANGED selectedFrameId
        ELSE /\ setState(MapWallFrames(state, state.active_wall_id,
                           LAMBDA fs : InsertAt(fs, frameIndex, f)), 1,
                         Append(frameObj, newFrame), doorsArr, doorObj,
                         editingFrame, selectedDoor)
             /\ Called("duplicateCabinet", selectedFrameId, newId, "ok")
             /\ selectedFrameId' = newId
     /\ UNCHANGED << canvasVars, subscribers, isEditorOpen, openedContent >>

\* Click on the k-th frame drawn on the canvas.
selectFrame(k) ==
  /\ ~isEditorOpen
  /\ k \in DOMAIN ActiveFrames(state)
  /\ selectedFrameId' = frameObj[ActiveFrames(state)[k]].id
  /\ NoCommit
  /\ Called("selectFrame", Undefined, Undefined, "ok")
  /\ UNCHANGED << canvasVars, subscribers, isEditorOpen, openedContent >>

\* The frame of the store's active wall that has the id, as the editor and
\* the properties below look it up; Null when there is none.
FrameById(st, fo, id) ==
  LET fs == ActiveFrames(st)
      found == FindIndex(fs, LAMBDA f : fo[f].id = id)
  IN IF found = 0 THEN Null ELSE fs[found]

\* openCabinetEditor, then the modal's ngOnChanges for isOpen = true.
openCabinetEditor ==
  LET frame == IF selectedFrameId = Null THEN Null
               ELSE FrameById(state, frameObj, selectedFrameId)
  IN /\ ~isEditorOpen
     /\ IF frame = Null
        THEN /\ NoCommit
             /\ Called("openCabinetEditor", Undefined, Undefined, "none")
             /\ UNCHANGED << isEditorOpen, openedContent >>
        ELSE /\ setState(state, 0, frameObj, doorsArr,
                         normalizeDoorPositions(doorsArr[frameObj[frame].doors],
                                                doorObj),
                         frame, selectedDoor)
             /\ Called("openCabinetEditor", frameObj[frame].id, Undefined, "ok")
             /\ isEditorOpen' = TRUE
             /\ openedContent' =
                  << SerializeFrame(frame, frameObj, doorsArr, doorObj) >>
     /\ UNCHANGED << canvasVars, subscribers, selectedFrameId >>

\* The modal's onClose / onBackdropClick (no palette drag is under way),
\* then closeCabinetEditor.
onClose ==
  /\ isEditorOpen
  /\ setState(state, 0, frameObj, doorsArr, doorObj, Null, selectedDoor)
  /\ Called("onClose", Undefined, Undefined, "ok")
  /\ isEditorOpen' = FALSE
  /\ UNCHANGED << canvasVars, subscribers, selectedFrameId, openedContent >>

\* The modal's onSave and, when it emits, saveEditedCabinet.
onSave ==
  LET arr == doorsArr[frameObj[editingFrame].doors]
      dobj == denormalizeDoorPositions(arr, doorObj)
      sorted == SortBy(arr, SaveKey(dobj))
      da == [doorsArr EXCEPT ![frameObj[editingFrame].doors] = sorted]
      frames == ActiveFrames(state)
      index == FindIndex(frames,
                 LAMBDA f : frameObj[f].id = frameObj[editingFrame].id)
  IN /\ isEditorOpen
     /\ IF hasEmptySlots(TotalUnitsOf(frameObj[editingFrame]), arr, doorObj)
        THEN /\ NoCommit
             /\ Called("onSave", Undefined, Undefined, "refused")
             /\ UNCHANGED isEditorOpen
        ELSE IF ActiveWallAt(state) = <<0, 0>>
        THEN /\ setState(state, 0, frameObj, da, dobj, editingFrame, selectedDoor)
             /\ Called("onSave", Undefined, Undefined, "dropped")
             /\ UNCHANGED isEditorOpen
        ELSE /\ IF index # 0
                THEN setState(MapWallFrames(state, state.active_wall_id,
                                LAMBDA fs : [fs EXCEPT ![index] = editingFrame]),
                              1, frameObj, da, dobj, Null, selectedDoor)
                ELSE setState(state, 0, frameObj, da, dobj, Null, selectedDoor)
             /\ Called("onSave", Undefined, Undefined,
                       IF index # 0 THEN "saved" ELSE "lost")
             /\ isEditorOpen' = FALSE
     /\ UNCHANGED << canvasVars, subscribers, selectedFrameId, openedContent >>

\* A Delete / Backspace or Escape key press.  While the editor is open its
\* document listener (handleKeyPress) runs first, then the component's
\* window listener (handleKeyDown).
keydown(key) ==
  LET deletes == key = "Delete" /\ isEditorOpen /\ selectedDoor # Null
      removes == key = "Delete" /\ selectedFrameId # Null
      arr == doorsArr[frameObj[editingFrame].doors]
      fo == IF deletes
            THEN [frameObj EXCEPT ![editingFrame].doors = Len(doorsArr) + 1]
            ELSE frameObj
      da == IF deletes
            THEN Append(doorsArr, SelectSeq(arr, LAMBDA r : r # selectedDoor))
            ELSE doorsArr
      st == IF removes
            THEN RemoveFrameState(state, state.active_wall_id, selectedFrameId,
                                  frameObj)
            ELSE state
      sd == IF isEditorOpen THEN Null ELSE selectedDoor
  IN /\ setState(st, IF removes THEN 1 ELSE 0, fo, da, doorObj, editingFrame, sd)
     /\ selectedFrameId' = IF key = "Delete" THEN Null ELSE selectedFrameId
     /\ Called("keydown", IF deletes THEN 1 ELSE 0, IF removes THEN 1 ELSE 0, key)
     /\ UNCHANGED << canvasVars, subscribers, isEditorOpen, openedContent >>

(***************************************************************************)
(* CabinetEditorModalComponent: the handlers of the open editor.           *)
(***************************************************************************)
EditedDoors == doorsArr[frameObj[editingFrame].doors]

EditedUnits == TotalUnitsOf(frameObj[editingFrame])

PointerArgs == Pointers(EditedUnits, EditedDoors, doorObj)

\* Click on the k-th drawn door.
clickDoor(k) ==
  /\ isEditorOpen
  /\ k \in DOMAIN Shapes(EditedDoors, doorObj)
  /\ setState(state, 0, frameObj, doorsArr, doorObj, editingFrame,
              Shapes(EditedDoors, doorObj)[k])
  /\ Called("clickDoor", Undefined, Undefined, "ok")
  /\ UNCHANGED << canvasVars, subscribers, selectedFrameId, isEditorOpen, openedContent >>

\* Drag of the k-th drawn door released at the pointer: dragstart selects
\* the door, dragend swaps it with the door found under the pointer.
dragDoor(k, pointer) ==
  /\ isEditorOpen
  /\ k \in DOMAIN Shapes(EditedDoors, doorObj)
  /\ pointer \in PointerArgs
  /\ LET door == Shapes(EditedDoors, doorObj)[k]
         targetDoor == findCabinetDoorAtPosition(pointer, door, EditedDoors, doorObj)
         swapped == /\ targetDoor # Null
                    /\ SwapAllowed(door, targetDoor, EditedUnits, EditedDoors,
                                   doorObj)
     IN /\ setState(state, 0, frameObj, doorsArr,
                    IF swapped
                    THEN [doorObj EXCEPT
                            ![door].position = doorObj[targetDoor].position,
                            ![targetDoor].position = doorObj[door].position]
                    ELSE doorObj,
                    editingFrame, door)
        /\ Called("dragDoor", Undefined, Undefined,
                  IF targetDoor = Null THEN "none"
                  ELSE IF swapped THEN "true" ELSE "false")
  /\ UNCHANGED << canvasVars, subscribers, selectedFrameId, isEditorOpen, openedContent >>

PaletteNames == {"dd"}

\* handleDropOnCabinet, on the highlights the last onMouseMove left:
\* what it does with the edited doors.
DropCreates(hover) ==
  /\ hover.highlighted \cap hover.invalid = {}
  /\ {id \in hover.highlighted : id[1] = "empty"} # {}
  /\ {id \in hover.highlighted : id[1] = "door"} = {}

DropReplaces(hover, arr, dobj) ==
  /\ hover.highlighted \cap hover.invalid = {}
  /\ {id \in hover.highlighted : id[1] = "door"} # {}
  /\ FirstShapeIn(hover.highlighted, arr, dobj) # Null

\* A drag of palette door name released at the pointer: startDrag, its
\* onMouseMove at the pointer (checkCabinetDoorHover), its onMouseUp
\* (handleDropOnCabinet, then the highlights are cleared).
startDrag(name, pointer) ==
  LET hover == checkCabinetDoorHover(pointer, name, EditedUnits, EditedDoors,
                                     doorObj)
      slot == CHOOSE id \in hover.highlighted : id[1] = "empty"
      actualDoorIds == {id \in hover.highlighted : id[1] = "door"}
      firstDoor == FirstShapeIn(actualDoorIds, EditedDoors, doorObj)
      newDoorUnits == getDoorUnits(name)
      freed == totalFreedSlots(actualDoorIds, EditedDoors, doorObj)
      createdDoor == [position |-> slot[2],
                      door_type |-> toUpperCase(name),
                      column |-> IF slot[3] = "right" THEN "right" ELSE "",
                      label |-> "", substitute |-> ""]
      replacement == [doorObj[firstDoor] EXCEPT
                        !.door_type = toUpperCase(name),
                        !.position = minPosition(firstDoor, actualDoorIds,
                                                 EditedDoors, doorObj)]
      newRef == Len(doorObj) + 1
      updatedDoors ==
        Append(SelectSeq(EditedDoors,
                         LAMBDA r : getDoorId(doorObj[r]) \notin actualDoorIds),
               newRef)
  IN /\ isEditorOpen
     /\ pointer \in PointerArgs \cup {<<>>}
     /\ DropCreates(hover) => Len(EditedDoors) < MaxDoors
     /\ IF DropCreates(hover)
        THEN /\ setState(state, 0, frameObj,
                         [doorsArr EXCEPT ![frameObj[editingFrame].doors] =
                            Append(@, newRef)],
                         Append(doorObj, createdDoor), editingFrame, selectedDoor)
             /\ Called("startDrag", newDoorUnits, Undefined, "created")
        ELSE IF DropReplaces(hover, EditedDoors, doorObj)
                /\ ReplaceAllowed(newDoorUnits, freed)
        THEN /\ setState(state, 0,
                         [frameObj EXCEPT ![editingFrame].doors =
                            Len(doorsArr) + 1],
                         Append(doorsArr, updatedDoors),
                         Append(doorObj, replacement), editingFrame, selectedDoor)
             /\ Called("startDrag", newDoorUnits, freed, "replaced")
        ELSE /\ NoCommit
             /\ Called("startDrag", newDoorUnits,
                       IF DropReplaces(hover, EditedDoors, doorObj)
                       THEN freed ELSE Undefined,
                       IF DropReplaces(hover, EditedDoors, doorObj)
                       THEN "rejected" ELSE "none")
     /\ UNCHANGED << canvasVars, subscribers, selectedFrameId, isEditorOpen, openedContent >>

(***************************************************************************)
(* KonvaConfiguratorComponent: reordering the frames of the active wall by *)
(* dragging one.  The layer holds one group per frame of the active wall,  *)
(* laid out by renderFrames each time activeWall$ emits.  Konva delivers   *)
(* dragstart, any number of dragmove and one dragend for a gesture.        *)
(* Lengths are in pixels.                                                  *)
(***************************************************************************)
SCALE == 6

\* renderFrames' first currentX.
StartX == 50

\* frame.width, copied from the cabinet's definition by addCabinetToWall.
FrameWidth(frame) == Catalog[frame.frame_id].width

\* The groups renderFrames puts on the layer, left to right.
renderFrames(frames, fo) ==
  [i \in DOMAIN frames |->
     [frameId |-> fo[frames[i]].id,
      frameIndex |-> i - 1,
      x |-> StartX + SumSeq([k \in 1..(i - 1) |->
                               FrameWidth(fo[frames[k]]) * SCALE]),
      width |-> FrameWidth(fo[frames[i]]) * SCALE]]

\* The layer's frame groups other than the dragged one, sorted by x.
otherGroups(groups, dragged) ==
  SelectSeq(groups, LAMBDA g : g.frameId # dragged)

\* insertionIndex that compares x with the left edge of the other groups.
insertionIndex_edge(x, others) ==
  LET before == {i \in DOMAIN others : x < others[i].x}
  IN IF before = {} THEN Len(others) ELSE SetMin(before) - 1

\* The index dragmove and dragend compute: that of the first other group
\* with x < other.x() + other.width() / 2, or the number of other groups.
insertionIndex(x, others) ==
  LET before == {i \in DOMAIN others : 2 * x < 2 * others[i].x + others[i].width}
  IN IF before = {} THEN Len(others) ELSE SetMin(before) - 1

\* dragmove's targetX.
placeholderTarget(insertIndex, others) ==
  IF Len(others) = 0 THEN StartX
  ELSE IF insertIndex < Len(others) THEN others[insertIndex + 1].x
  ELSE others[Len(others)].x + others[Len(others)].width

\* Array.prototype.splice's start: a negative start counts from the end.
SpliceStart(len, start) ==
  IF start < 0 THEN (IF len + start < 0 THEN 0 ELSE len + start)
  ELSE IF start > len THEN len ELSE start

\* reorderFrames with the index lowered when the frame came from its left.
reorderedFrames_adjusted(frames, oldIndex, newIndex) ==
  LET from == SpliceStart(Len(frames), oldIndex)
      rest == RemoveAt(frames, from)
      to == SpliceStart(Len(rest),
                        IF newIndex > oldIndex THEN newIndex - 1 ELSE newIndex)
  IN IF from + 1 \in DOMAIN frames
     THEN InsertAt(rest, to, frames[from + 1])
     ELSE frames

\* reorderFrames' frames after the two splices; frames itself when
\* splice(oldIndex, 1) removes nothing.
reorderedFrames(frames, oldIndex, newIndex) ==
  LET from == SpliceStart(Len(frames), oldIndex)
      rest == RemoveAt(frames, from)
      to == SpliceStart(Len(rest), newIndex)
  IN IF from + 1 \in DOMAIN frames
     THEN InsertAt(rest, to, frames[from + 1])
     ELSE frames

NoDrag ==
  [isReordering |-> FALSE, dragStartIndex |-> -1, group |-> Null,
   x |-> Undefined, placeholder |-> Undefined]

\* completedMeasurements: null, or the Konva group with the lines added to
\* it, each << first point, second point >>.
NoGroup == [group |-> FALSE, lines |-> << >>]

NewGroup == [group |-> TRUE, lines |-> << >>]

\* Measure mode is off.
NoMeasure ==
  [isMeasuringMode |-> FALSE, measureFirstPoint |-> Null,
   measureSecondPoint |-> Null, completedMeasurements |-> NoGroup]

\* dragstart on the k-th group of the layer.  Groups are not draggable in
\* measure mode.
dragstart(k) ==
  LET groups == renderFrames(ActiveFrames(state), frameObj)
  IN /\ ~isEditorOpen /\ ~measure.isMeasuringMode /\ ~drag.isReordering
     /\ k \in DOMAIN groups
     /\ drag' = [isReordering |-> TRUE,
                 dragStartIndex |-> groups[k].frameIndex,
                 group |-> groups[k].frameId,
                 x |-> groups[k].x,
                 placeholder |-> 0]
     /\ selectedFrameId' = groups[k].frameId
     /\ NoCommit
     /\ Called("dragstart", groups[k].frameIndex, Undefined, "ok")
     /\ UNCHANGED << measure, probe, subscribers, isEditorOpen, openedContent >>

\* dragmove with the dragged group at x.
dragmove(x) ==
  LET others == otherGroups(renderFrames(ActiveFrames(state), frameObj),
                            drag.group)
      insertIndex == insertionIndex(x, others)
  IN /\ drag.isReordering
     /\ drag' = [drag EXCEPT !.x = x,
                   !.placeholder = placeholderTarget(insertIndex, others) - 2]
     /\ NoCommit
     /\ Called("dragmove", x, insertIndex, "ok")
     /\ UNCHANGED << measure, probe, subscribers, selectedFrameId, isEditorOpen,
                     openedContent >>

\* dragend, then reorderFrames(dragStartIndex, newIndex) and, when it
\* commits, the renderFrames of the wall subscription.  onStage tells
\* whether the pointer was released over the stage; the handler does not
\* look at its event.
dragend(onStage) ==
  LET frames == ActiveFrames(state)
      others == otherGroups(renderFrames(frames, frameObj), drag.group)
      newIndex == insertionIndex(drag.x, others)
      moves == /\ ActiveWallAt(state) # <<0, 0>>
               /\ SpliceStart(Len(frames), drag.dragStartIndex) + 1
                    \in DOMAIN frames
  IN /\ drag.isReordering
     /\ onStage \in BOOLEAN
     /\ IF moves
        THEN /\ setState(MapWallFrames(state, state.active_wall_id,
                           LAMBDA fs : reorderedFrames(frames,
                                         drag.dragStartIndex, newIndex)),
                         1, frameObj, doorsArr, doorObj, editingFrame,
                         selectedDoor)
             /\ drag' = [NoDrag EXCEPT !.dragStartIndex = drag.dragStartIndex]
        ELSE /\ NoCommit
             /\ drag' = [drag EXCEPT !.isReordering = FALSE,
                                     !.placeholder = Undefined]
     /\ Called("dragend", drag.dragStartIndex, newIndex,
               IF moves THEN "ok" ELSE "none")
     /\ UNCHANGED << measure, probe, subscribers, selectedFrameId, isEditorOpen,
                     openedContent >>

(***************************************************************************)
(* KonvaConfiguratorComponent: measure mode.  A click arrives from the     *)
(* stage or from a frame group; clickPos is the snap point found near the  *)
(* pointer or else the pointer's own place.                                *)
(***************************************************************************)
\* clearMeasurement
clearMeasurement(m) ==
  [m EXCEPT !.completedMeasurements = NoGroup,
            !.measureFirstPoint = Null, !.measureSecondPoint = Null]

\* resetCurrentMeasurement that destroys the completed measurements too.
resetCurrentMeasurement_all(m) ==
  [m EXCEPT !.completedMeasurements = NewGroup,
            !.measureFirstPoint = Null, !.measureSecondPoint = Null]

\* resetCurrentMeasurement: the references are dropped, the group stays.
resetCurrentMeasurement(m) ==
  [m EXCEPT !.measureFirstPoint = Null, !.measureSecondPoint = Null]

\* completeMeasurement: the line from the first to the second point is
\* added to the group, when there is one.
completeMeasurement(m) ==
  IF m.measureFirstPoint = Null \/ m.measureSecondPoint = Null
     \/ ~m.completedMeasurements.group
  THEN m
  ELSE [m EXCEPT !.completedMeasurements.lines =
                   Append(@, << m.measureFirstPoint, m.measureSecondPoint >>)]

toggleMeasureMode ==
  /\ ~isEditorOpen /\ ~drag.isReordering
  /\ IF ~measure.isMeasuringMode
     THEN /\ measure' = [measure EXCEPT !.isMeasuringMode = TRUE,
                                        !.completedMeasurements = NewGroup]
          /\ selectedFrameId' = Null
     ELSE /\ measure' = clearMeasurement(
                          [measure EXCEPT !.isMeasuringMode = FALSE])
          /\ UNCHANGED selectedFrameId
  /\ NoCommit
  /\ Called("toggleMeasureMode", Undefined, Undefined, "ok")
  /\ UNCHANGED << drag, probe, subscribers, isEditorOpen, openedContent >>

\* handleMeasureClick with the place it settles on, while the group holds
\* fewer than limit measurements.
handleMeasureClick(clickPos, limit) ==
  /\ ~isEditorOpen /\ measure.isMeasuringMode
  /\ Len(measure.completedMeasurements.lines) < limit
  /\ measure' =
       IF measure.measureFirstPoint = Null
       THEN [measure EXCEPT !.measureFirstPoint = clickPos]
       ELSE IF measure.measureSecondPoint = Null
       THEN completeMeasurement(
              [measure EXCEPT !.measureSecondPoint = clickPos])
       ELSE [resetCurrentMeasurement(measure) EXCEPT
               !.measureFirstPoint = clickPos]
  /\ NoCommit
  /\ Called("handleMeasureClick", clickPos, Undefined, "ok")
  /\ UNCHANGED << drag, probe, subscribers, selectedFrameId, isEditorOpen,
                  openedContent >>

(***************************************************************************)
(* KonvaConfiguratorComponent: snap points.  A place on the canvas is kept *)
(* in half pixels (x2, y2), so that x + width / 2 is a whole number for a  *)
(* group of any whole width.                                               *)
(***************************************************************************)
SNAP_THRESHOLD == 30

SnapPoint(x2, y2, type) == [x2 |-> x2, y2 |-> y2, type |-> type]

\* getSnapPointsForGroup: four corners, four midpoints and the center, in
\* the order they are pushed.
getSnapPointsForGroup(group) ==
  LET x == 2 * group.x
      y == 2 * group.y
      width == 2 * group.width
      height == 2 * group.height
  IN << SnapPoint(x, y, "corner"),
        SnapPoint(x + width, y, "corner"),
        SnapPoint(x, y + height, "corner"),
        SnapPoint(x + width, y + height, "corner"),
        SnapPoint(x + width \div 2, y, "midpoint"),
        SnapPoint(x + width \div 2, y + height, "midpoint"),
        SnapPoint(x, y + height \div 2, "midpoint"),
        SnapPoint(x + width, y + height \div 2, "midpoint"),
        SnapPoint(x + width \div 2, y + height \div 2, "center") >>

\* handleMeasureClick's allPoints: the points of every group of the layer.
RECURSIVE allSnapPoints(_)
allSnapPoints(groups) ==
  IF groups = << >> THEN << >>
  ELSE getSnapPointsForGroup(Head(groups)) \o allSnapPoints(Tail(groups))

\* The square of the distance between two places, in half pixels.  The
\* square root is increasing, so dist < minDist compares as the squares do.
Dist2(pos, point) ==
  (pos.x2 - point.x2) * (pos.x2 - point.x2)
    + (pos.y2 - point.y2) * (pos.y2 - point.y2)

Threshold2 == (2 * SNAP_THRESHOLD) * (2 * SNAP_THRESHOLD)

\* The loop of findNearestSnapPoint from points[i] on; nearest is << >>
\* for null or << point >>.
RECURSIVE NearestFrom(_, _, _, _, _)
NearestFrom(pos, points, i, minDist2, nearest) ==
  IF i > Len(points) THEN nearest
  ELSE IF Dist2(pos, points[i]) < minDist2
  THEN NearestFrom(pos, points, i + 1, Dist2(pos, points[i]), << points[i] >>)
  ELSE NearestFrom(pos, points, i + 1, minDist2, nearest)

\* findNearestSnapPoint that takes a point at the threshold too.
findNearestSnapPoint_inclusive(pos, points) ==
  LET nearest == NearestFrom(pos, points, 1, Threshold2 + 1, << >>)
  IN IF nearest = << >> THEN << >>
     ELSE << [x2 |-> nearest[1].x2, y2 |-> nearest[1].y2] >>

\* findNearestSnapPoint: << >> for null.
findNearestSnapPoint(pos, points) ==
  LET nearest == NearestFrom(pos, points, 1, Threshold2, << >>)
  IN IF nearest = << >> THEN << >>
     ELSE << [x2 |-> nearest[1].x2, y2 |-> nearest[1].y2] >>

(***************************************************************************)
(* KonvaStateService: a new project.                                       *)
(***************************************************************************)
\* The members the object INITIAL_STATE has, of those the snapshot keeps;
\* it has no tenant_num_start and no parcel_num_start.
InitialMembers == {"levels", "active_level_id", "active_wall_id"}

\* { ...currentState, ...newState } in setState, for a newState that has
\* the members given.
Spread(currentState, newState, members) ==
  [k \in DOMAIN currentState |->
     IF k \in members THEN newState[k] ELSE currentState[k]]

\* resetForNewProject, called by the projects page while the configurator
\* is not shown: clearStorage, then setState({ ...INITIAL_STATE }), which
\* saves again.
resetForNewProject ==
  /\ ~isEditorOpen
  /\ setState(Spread(state, INITIAL_STATE, InitialMembers), 1,
              frameObj, doorsArr, doorObj, editingFrame, selectedDoor)
  /\ Called("resetForNewProject", Undefined, Undefined, "ok")
  /\ UNCHANGED << canvasVars, subscribers, selectedFrameId, isEditorOpen, openedContent >>

(***************************************************************************)
(* Observers of state$.  A BehaviorSubject replays its current value to a  *)
(* new observer.                                                           *)
(***************************************************************************)
subscribe(s) ==
  /\ s \notin subscribers
  /\ subscribers' = subscribers \cup {s}
  /\ notified' = [t \in subscribers' |-> IF t = s THEN 1 ELSE 0]
  /\ lastSeen' = [t \in subscribers' |-> IF t = s THEN state ELSE lastSeen[t]]
  /\ Called("subscribe", s, Undefined, "ok")
  /\ UNCHANGED << state, storage, frameObj, doorsArr, doorObj >>
  /\ UNCHANGED componentVars
  /\ UNCHANGED editorVars
  /\ UNCHANGED canvasVars

unsubscribe(s) ==
  /\ s \in subscribers
  /\ subscribers' = subscribers \ {s}
  /\ notified' = [t \in subscribers' |-> 0]
  /\ lastSeen' = [t \in subscribers' |-> lastSeen[t]]
  /\ Called("unsubscribe", s, Undefined, "ok")
  /\ UNCHANGED << state, storage, frameObj, doorsArr, doorObj >>
  /\ UNCHANGED componentVars
  /\ UNCHANGED editorVars
  /\ UNCHANGED canvasVars

(***************************************************************************)
(* The state after construction.                                           *)
(***************************************************************************)
\* Everything but the probe.
InitComponent ==
  /\ state = INITIAL_STATE
  /\ storage = <<>>
  /\ frameObj = <<>>
  /\ doorsArr = <<>>
  /\ doorObj = <<>>
  /\ subscribers = {}
  /\ notified = <<>>
  /\ lastSeen = <<>>
  /\ lastCall = [op |-> "init", a |-> Undefined, b |-> Undefined, result |-> "ok",
                 active |-> << Undefined, Undefined >>]
  /\ selectedFrameId = Null
  /\ isEditorOpen = FALSE
  /\ editingFrame = Null
  /\ selectedDoor = Null
  /\ openedContent = <<>>
  /\ drag = NoDrag
  /\ measure = NoMeasure

Init == InitComponent /\ probe = <<>>

\* The ids a caller may pass: those in use and one that never is.
LevelArgs == 0..(MaxLevelId + 1)

WallArgs == 0..(MaxWallId + 1)

FrameIdArgs == 1..(MaxFrames + 1)

PositionArgs == {0, 1}

SubstituteTypes == {"dd"}

StartValues == {1, 5}

InsertArgs == 0..MaxFrames

\* The store, called in any order.
Next ==
  \/ addLevel
  \/ \E l \in LevelArgs : removeLevel(l)
  \/ \E l \in LevelArgs : setActiveLevel(l)
  \/ \E l \in LevelArgs : addWall(l)
  \/ \E l \in LevelArgs, w \in WallArgs : removeWall(l, w)
  \/ \E w \in WallArgs : setActiveWall(w)
  \/ \E w \in WallArgs, d \in DOMAIN Catalog : addFrame(w, d)
  \/ \E w \in WallArgs, f \in FrameIdArgs : removeFrame(w, f)
  \/ \E s \in Subscribers : subscribe(s)
  \/ \E s \in Subscribers : unsubscribe(s)

Spec == Init /\ [][Next]_vars

\* The start value the numbering form is given.
NumberingStart == SetMin(StartValues)

\* The store with its observers: every mutation, on the frames of wall 0,
\* and the form that numbers the doors.
NextNotify ==
  \/ addLevel
  \/ \E l \in 0..MaxLevelId : removeLevel(l)
  \/ \E l \in LevelArgs : setActiveLevel(l)
  \/ \E l \in LevelArgs : addWall(l)
  \/ \E l \in 0..MaxLevelId, w \in 0..MaxWallId : removeWall(l, w)
  \/ \E w \in WallArgs : setActiveWall(w)
  \/ \E d \in DOMAIN Catalog : addFrame(0, d)
  \/ \E f \in FrameIdArgs : removeFrame(0, f)
  \/ \E f \in FrameIdArgs : substituteDoor(0, f, 0, "dd")
  \/ setTenantNumStart(NumberingStart)
  \/ setParcelNumStart(NumberingStart)
  \/ updateAutoNumbering(NumberingStart, NumberingStart)
  \/ \E s \in Subscribers : subscribe(s)
  \/ \E s \in Subscribers : unsubscribe(s)

SpecNotify == Init /\ [][NextNotify]_vars

(***************************************************************************)
(* The store and the canvas on the one wall of INITIAL_STATE: frames,      *)
(* doors, numbering and the observers.                                     *)
(***************************************************************************)
NextWall ==
  \/ \E l \in LevelArgs : setActiveLevel(l)
  \/ \E d \in DOMAIN Catalog : addFrame(0, d)
  \/ \E f \in FrameIdArgs : removeFrame(0, f)
  \/ \E f \in FrameIdArgs, p \in PositionArgs,
        t \in SubstituteTypes : substituteDoor(0, f, p, t)
  \/ \E v \in StartValues : setTenantNumStart(v)
  \/ \E v \in StartValues : setParcelNumStart(v)
  \/ \E t \in StartValues, v \in StartValues : updateAutoNumbering(t, v)
  \/ \E d \in DOMAIN Catalog, i \in InsertArgs : handleDrop(d, i)
  \/ \E k \in 1..MaxFrames : selectFrame(k)
  \/ \E key \in {"Delete", "Escape"} : keydown(key)
  \/ \E s \in Subscribers : subscribe(s)
  \/ \E s \in Subscribers : unsubscribe(s)

SpecWall == Init /\ [][NextWall]_vars

ShapeArgs == 1..MaxDoors

UnitArgs ==
  0..(SetMax({TotalUnitsOf(Catalog[d]) : d \in DOMAIN Catalog}) - 1)

NextEditor ==
  \/ \E d \in DOMAIN Catalog, i \in InsertArgs : handleDrop(d, i)
  \/ \E k \in 1..MaxFrames : selectFrame(k)
  \/ openCabinetEditor
  \/ onClose
  \/ onSave
  \/ \E key \in {"Delete", "Escape"} : keydown(key)
  \/ \E k \in ShapeArgs : clickDoor(k)
  \/ \E k \in ShapeArgs, c \in {"left", "right"}, u \in UnitArgs :
        dragDoor(k, << c, u >>)
  \/ \E name \in PaletteNames, c \in {"left", "right"}, u \in UnitArgs :
        startDrag(name, << c, u >>)
  \/ \E name \in PaletteNames : startDrag(name, <<>>)

SpecEditor == Init /\ [][NextEditor]_vars

(***************************************************************************)
(* The canvas of the one wall of INITIAL_STATE: cabinets dropped from the  *)
(* palette and dragged to another place.  While a frame is dragged the     *)
(* pointer is held by the drag, so no cabinet is dropped.                  *)
(***************************************************************************)
MaxDragFrames == 3

\* Where a dragged group is let go: left of the wall, on and between the
\* midpoints of the groups, right of the wall.
DragXs == {0, 98, 150, 194, 250, 400}

NextDrag ==
  \/ \E d \in DOMAIN Catalog, i \in 0..(MaxDragFrames - 1) :
        ~drag.isReordering /\ handleDropUpTo(d, i, MaxDragFrames)
  \/ \E k \in 1..MaxDragFrames : dragstart(k)
  \/ \E x \in DragXs : dragmove(x)
  \/ \E onStage \in BOOLEAN : dragend(onStage)
  \/ \E s \in Subscribers : ~drag.isReordering /\ subscribe(s)
  \/ \E s \in Subscribers : ~drag.isReordering /\ unsubscribe(s)

SpecDrag == Init /\ [][NextDrag]_vars

(***************************************************************************)
(* The reorder of dragend and reorderFrames on its own: three frames A, B, *)
(* C drawn at given places, one of them let go at x.                       *)
(***************************************************************************)
ProbeWidth == 100

ProbeXs == {0, 50, 100, 150, 200, 250, 270, 300}

ProbeLayers ==
  {<< [frameId |-> "A", frameIndex |-> 0, x |-> 0, width |-> ProbeWidth],
      [frameId |-> "B", frameIndex |-> 1, x |-> xb, width |-> ProbeWidth],
      [frameId |-> "C", frameIndex |-> 2, x |-> xc, width |-> ProbeWidth] >> :
     xb \in {100, 110}, xc \in {210, 220}}

NotApplied == << "none" >>

InitReorder ==
  /\ InitComponent
  /\ probe \in [groups : ProbeLayers, dragStartIndex : 0..2, x : ProbeXs,
                out : {NotApplied}]

\* dragend's newIndex and reorderFrames' two splices, on the probe.
applyReorder ==
  LET groups == probe.groups
      frames == [i \in DOMAIN groups |-> groups[i].frameId]
      dragged == groups[probe.dragStartIndex + 1].frameId
      newIndex == insertionIndex(probe.x, otherGroups(groups, dragged))
  IN /\ probe.out = NotApplied
     /\ probe' = [probe EXCEPT
                    !.out = reorderedFrames(frames, probe.dragStartIndex,
                                            newIndex)]
     /\ UNCHANGED << state, storage, frameObj, doorsArr, doorObj, subscribers,
                     notified, lastSeen, lastCall, selectedFrameId,
                     isEditorOpen, editingFrame, selectedDoor, openedContent,
                     drag, measure >>

NextReorder == applyReorder

SpecReorder == InitReorder /\ [][NextReorder]_vars

(***************************************************************************)
(* Numbering the doors of the one wall of INITIAL_STATE: a cabinet is      *)
(* dropped, its doors are moved in the editor, the wall is numbered and    *)
(* the numbering is reset.                                                 *)
(***************************************************************************)
NextNumbering ==
  \/ \E d \in DOMAIN Catalog, i \in InsertArgs : handleDrop(d, i)
  \/ \E k \in 1..MaxFrames : selectFrame(k)
  \/ openCabinetEditor
  \/ onClose
  \/ onSave
  \/ \E k \in ShapeArgs, c \in {"left", "right"}, u \in UnitArgs :
        dragDoor(k, << c, u >>)
  \/ \E key \in {"Delete"} : keydown(key)
  \/ \E t \in StartValues, v \in StartValues : updateAutoNumbering(t, v)
  \/ resetNumbering

SpecNumbering == Init /\ [][NextNumbering]_vars

(***************************************************************************)
(* KonvaStateService: persistence, as functions of the snapshot.  A        *)
(* snapshot is an object: a function from the names of its members to      *)
(* their values, a value being << v >> or, for undefined, << >>; a member  *)
(* that is absent reads as undefined.                                      *)
(***************************************************************************)
JsUndefined == << >>

Read(obj, k) == IF k \in DOMAIN obj THEN obj[k] ELSE JsUndefined

\* A defined, non-empty string: what `if (s)` and `s || d` test.
Truthy(v) == v # JsUndefined /\ v[1] # ""

\* a || d, for strings
OrElse(v, d) == IF Truthy(v) THEN v ELSE d

\* a ?? d
Coalesce(v, d) == IF v # JsUndefined THEN v ELSE d

\* JSON.stringify of a flat object: members that are undefined are left out.
StringifyObject(obj) ==
  [k \in {m \in DOMAIN obj : obj[m] # JsUndefined} |-> obj[k]]

\* JSON.stringify(state): the members of state and of state.config.
JSONstringify(st) ==
  LET flat == StringifyObject(st)
  IN [k \in DOMAIN flat |->
        IF k = "config" THEN << StringifyObject(flat[k][1]) >> ELSE flat[k]]

\* JSON.parse of a text JSON.stringify wrote: an object with the members
\* written.
JSONparse(text) == [k \in DOMAIN text |-> text[k]]

\* saveToStorage: the item 'c4-konva-configurator-state'.
saveToStorage(st) == JSONstringify(st)

\* loadFromStorage on the item: the old format is migrated, a state
\* without levels is refused (null).
loadFromStorage(item) ==
  LET parsed == JSONparse(item)
      migrated ==
        IF Read(parsed, "walls") # JsUndefined /\ Read(parsed, "levels") = JsUndefined
        THEN [k \in (DOMAIN parsed \ {"walls"}) \cup {"levels", "active_level_id"} |->
                IF k = "levels"
                THEN << << [level_id |-> 0, walls |-> parsed["walls"][1]] >> >>
                ELSE IF k = "active_level_id" THEN << 0 >>
                ELSE parsed[k]]
        ELSE parsed
  IN IF Read(migrated, "levels") = JsUndefined THEN << "null" >> ELSE migrated

\* exportStateForProject
exportStateForProject(st) ==
  [levels |-> Read(st, "levels"),
   activeLevelId |-> Read(st, "active_level_id"),
   activeWallId |-> Read(st, "active_wall_id"),
   installType |-> Read(st["config"][1], "install_type"),
   depotColor |-> Read(st["config"][1], "depot_color"),
   tenantNumStart |-> Read(st, "tenant_num_start"),
   moduleMode |-> OrElse(Read(st, "module_mode"), << "frame" >>)]

\* The state loadStateFromProject installs over the current one.
loadStateFromProject(projectState, current) ==
  LET loadedLevels ==
        IF projectState.levels # JsUndefined /\ Len(projectState.levels[1]) > 0
        THEN projectState.levels ELSE << INITIAL_STATE.levels >>
      old == current["config"][1]
      config ==
        [k \in DOMAIN old
                 \cup (IF Truthy(projectState.installType)
                       THEN {"install_type"} ELSE {})
                 \cup (IF Truthy(projectState.depotColor)
                       THEN {"depot_color"} ELSE {}) |->
           IF k = "install_type" /\ Truthy(projectState.installType)
           THEN projectState.installType
           ELSE IF k = "depot_color" /\ Truthy(projectState.depotColor)
           THEN projectState.depotColor
           ELSE old[k]]
      set == [config |-> << config >>,
              levels |-> loadedLevels,
              active_level_id |->
                Coalesce(projectState.activeLevelId,
                         << INITIAL_STATE.active_level_id >>),
              active_wall_id |->
                Coalesce(projectState.activeWallId,
                         << INITIAL_STATE.active_wall_id >>),
              tenant_num_start |-> projectState.tenantNumStart,
              module_mode |-> OrElse(projectState.moduleMode, << "frame" >>)]
  IN [k \in DOMAIN current \cup DOMAIN set |->
        IF k \in DOMAIN set THEN set[k] ELSE current[k]]

\* The snapshots persisted: with and without the optional members, the
\* height lock toggled or not, one or two walls.
ProbeConfigs ==
  {[k \in {"install_type"} \cup opt |->
      IF k = "install_type" THEN << it >> ELSE << "red" >>] :
     it \in {"recessed", "surface"}, opt \in SUBSET {"depot_color"}}

ProbeLevels ==
  {INITIAL_STATE.levels,
   << [level_id |-> 0,
       walls |-> << [wall_id |-> 0, frames |-> << >>],
                    [wall_id |-> 1, frames |-> << >>] >>] >>}

ProbeStates ==
  {[k \in {"config", "levels", "active_level_id", "active_wall_id",
           "module_mode", "height_lock_config"} \cup opt |->
      IF k = "config" THEN << c >>
      ELSE IF k = "levels" THEN << ls >>
      ELSE IF k = "active_level_id" THEN << 0 >>
      ELSE IF k = "active_wall_id" THEN << Len(ls[1].walls) - 1 >>
      ELSE IF k = "module_mode" THEN << mm >>
      ELSE IF k = "height_lock_config" THEN << hl >>
      ELSE << ts >>] :
     c \in ProbeConfigs, ls \in ProbeLevels,
     mm \in {"frame", "substitute"}, hl \in BOOLEAN,
     ts \in StartValues, opt \in SUBSET {"tenant_num_start"}}

\* The state of a service that has just been constructed or reset.
FreshState ==
  [config |-> << [install_type |-> << "recessed" >>] >>,
   levels |-> << INITIAL_STATE.levels >>,
   active_level_id |-> << INITIAL_STATE.active_level_id >>,
   active_wall_id |-> << INITIAL_STATE.active_wall_id >>,
   module_mode |-> << "frame" >>,
   height_lock_config |-> << FALSE >>]

InitPersist ==
  /\ InitComponent
  /\ \E st \in ProbeStates :
       probe \in [state : {st}, current : {st, FreshState}, out : {NotApplied}]

probeOnly ==
  UNCHANGED << state, storage, frameObj, doorsArr, doorObj, subscribers,
               notified, lastSeen, lastCall, selectedFrameId, isEditorOpen,
               editingFrame, selectedDoor, openedContent, drag, measure >>

\* saveToStorage, then loadFromStorage by the next service constructed.
applyStorage ==
  /\ probe.out = NotApplied
  /\ probe' = [probe EXCEPT
                 !.out = << "storage", loadFromStorage(saveToStorage(probe.state)) >>]
  /\ probeOnly

\* exportStateForProject, then loadStateFromProject by a service whose
\* state is probe.current.
applyProject ==
  /\ probe.out = NotApplied
  /\ probe' = [probe EXCEPT
                 !.out = << "project",
                            loadStateFromProject(
                              exportStateForProject(probe.state),
                              probe.current) >>]
  /\ probeOnly

NextPersist == applyStorage \/ applyProject

SpecPersist == InitPersist /\ [][NextPersist]_vars

(***************************************************************************)
(* Measuring on the canvas of the one wall of INITIAL_STATE.               *)
(***************************************************************************)
MaxMeasurements == 3

\* The places a click settles on.
MeasurePoints == {10, 20}

NextMeasure ==
  \/ toggleMeasureMode
  \/ \E clickPos \in MeasurePoints : handleMeasureClick(clickPos, MaxMeasurements)

SpecMeasure == Init /\ [][NextMeasure]_vars

(***************************************************************************)
(* Snapping a cursor to the groups of a layer.  The first group stands at  *)
(* (50, 100); the cursor is placed 25, 30 and 35 pixels from its top-left  *)
(* corner, along an axis and askew (7-24-25, 18-24-30, 21-28-35), and      *)
(* halfway between the corner and the top midpoint.                        *)
(***************************************************************************)
SnapLayers ==
  {<< [x |-> 50, y |-> 100, width |-> 96, height |-> 252] >>,
   << [x |-> 50, y |-> 100, width |-> 99, height |-> 252] >>,
   << [x |-> 50, y |-> 100, width |-> 96, height |-> 252],
      [x |-> 146, y |-> 100, width |-> 96, height |-> 252] >>}

SnapCursorXs == {15, 20, 25, 26, 29, 32, 50, 74, 170, 194}

SnapCursorYs == {100, 93, 76, 72, 70, 65}

InitSnap ==
  /\ InitComponent
  /\ probe \in [groups : SnapLayers,
                pos : [x2 : {2 * x : x \in SnapCursorXs},
                       y2 : {2 * y : y \in SnapCursorYs}],
                out : {NotApplied}]

\* handleMeasureClick's snapped, on the probe.
applySnap ==
  /\ probe.out = NotApplied
  /\ probe' = [probe EXCEPT
                 !.out = << "snap",
                            findNearestSnapPoint(probe.pos,
                                                 allSnapPoints(probe.groups)) >>]
  /\ probeOnly

NextSnap == applySnap

SpecSnap == InitSnap /\ [][NextSnap]_vars

(***************************************************************************)
(* Duplicating the cabinet of the one wall of INITIAL_STATE and editing    *)
(* one of the two in the editor.                                           *)
(***************************************************************************)
MaxDuplicates == 1

NextDuplicate ==
  \/ \E d \in DOMAIN Catalog : handleDropUpTo(d, 0, 1)
  \/ \E k \in 1..(1 + MaxDuplicates) : selectFrame(k)
  \/ duplicateCabinet(1 + MaxDuplicates)
  \/ openCabinetEditor
  \/ onClose
  \/ onSave
  \/ \E k \in ShapeArgs : clickDoor(k)
  \/ \E k \in ShapeArgs, c \in {"left", "right"}, u \in UnitArgs :
        dragDoor(k, << c, u >>)
  \/ \E key \in {"Delete", "Escape"} : keydown(key)

SpecDuplicate == Init /\ [][NextDuplicate]_vars

(***************************************************************************)
(* A project that is built, numbered and then replaced by a new one.       *)
(***************************************************************************)
NextProject ==
  \/ addLevel
  \/ \E l \in LevelArgs : addWall(l)
  \/ \E w \in WallArgs : setActiveWall(w)
  \/ \E d \in DOMAIN Catalog : addFrame(0, d)
  \/ \E v \in StartValues : setTenantNumStart(v)
  \/ \E v \in StartValues : setParcelNumStart(v)
  \/ resetForNewProject
  \/ \E s \in Subscribers : subscribe(s)
  \/ \E s \in Subscribers : unsubscribe(s)

SpecProject == Init /\ [][NextProject]_vars

(***************************************************************************)
(* The editor on a single-column cabinet: the catalog holds one cabinet    *)
(* of three units with a single and a double door and no right column.     *)
(***************************************************************************)
SingleColumnCatalog ==
  << [leftColumn |-> <<"sd", "dd">>, rightColumn |-> << >>, height |-> 42,
      width |-> 16] >>

NextSingle ==
  \/ \E d \in DOMAIN SingleColumnCatalog :
        handleDropFrom(SingleColumnCatalog, d, 0, 1)
  \/ selectFrame(1)
  \/ openCabinetEditor
  \/ onClose
  \/ onSave
  \/ \E key \in {"Delete", "Escape"} : keydown(key)
  \/ \E k \in ShapeArgs : clickDoor(k)
  \/ \E k \in ShapeArgs, c \in {"left", "right"}, u \in UnitArgs :
        dragDoor(k, << c, u >>)
  \/ \E name \in PaletteNames, c \in {"left", "right"}, u \in UnitArgs :
        startDrag(name, << c, u >>)
  \/ \E name \in PaletteNames : startDrag(name, <<>>)

SpecSingle == Init /\ [][NextSingle]_vars

(***************************************************************************)
(* normalizeDoorPositions and denormalizeDoorPositions on the doors of a   *)
(* frame: up to three doors, in any array order, in the left column        *)
(* (named or not) and the right one, stored either with the indices        *)
(* 0..n-1 of each column or with unit offsets that are contiguous from 0.  *)
(***************************************************************************)
MaxProbeDoors == 3

\* The doors without their position, in array order.
ProbeShapes ==
  UNION {[1..n -> [door_type : {"sd", "DD", "td"},
                   column : {"left", "right", ""}]] : n \in 1..MaxProbeDoors}

\* The doors of the shapes that stand above door i in its column, when
\* rank orders the doors from the top down.
Above(shapes, rank, i) ==
  {k \in DOMAIN shapes : /\ ColumnOf(shapes[k]) = ColumnOf(shapes[i])
                         /\ rank[k] < rank[i]}

\* The doors stored with the index in the column as position.
StoredSequential(shapes, rank) ==
  [i \in DOMAIN shapes |->
     [position |-> Cardinality(Above(shapes, rank, i)),
      door_type |-> shapes[i].door_type, column |-> shapes[i].column,
      label |-> "", substitute |-> ""]]

\* The doors stored with the unit offset as position: each column is
\* contiguous from unit 0, without gaps or overlaps.
StoredContiguous(shapes, rank) ==
  [i \in DOMAIN shapes |->
     [position |-> SumSeq([k \in DOMAIN shapes |->
                             IF k \in Above(shapes, rank, i)
                             THEN UnitsOf(shapes[k]) ELSE 0]),
      door_type |-> shapes[i].door_type, column |-> shapes[i].column,
      label |-> "", substitute |-> ""]]

InitConvert ==
  /\ InitComponent
  /\ \E shapes \in ProbeShapes :
       \E rank \in Permutations(DOMAIN shapes) :
         \/ probe = [doors |-> StoredSequential(shapes, rank),
                     stored |-> "sequential", out |-> NotApplied]
         \/ probe = [doors |-> StoredContiguous(shapes, rank),
                     stored |-> "contiguous", out |-> NotApplied]

\* frame.doors as the array of the references 1..n to the probe's doors.
ProbeArray == [i \in DOMAIN probe.doors |-> i]

\* normalizeDoorPositions as the editor opens, denormalizeDoorPositions as
\* it saves.
applyNormalizeDenormalize ==
  LET normalized == normalizeDoorPositions(ProbeArray, probe.doors)
  IN /\ probe.out = NotApplied
     /\ probe.stored = "sequential"
     /\ probe' = [probe EXCEPT
                    !.out = << "normalize", normalized,
                               denormalizeDoorPositions(ProbeArray, normalized) >>]
     /\ probeOnly

\* denormalizeDoorPositions as the editor saves, normalizeDoorPositions as
\* it opens again.
applyDenormalizeNormalize ==
  LET denormalized == denormalizeDoorPositions(ProbeArray, probe.doors)
  IN /\ probe.out = NotApplied
     /\ probe.stored = "contiguous"
     /\ probe' = [probe EXCEPT
                    !.out = << "denormalize", denormalized,
                               normalizeDoorPositions(ProbeArray, denormalized) >>]
     /\ probeOnly

NextConvert == applyNormalizeDenormalize \/ applyDenormalizeNormalize

SpecConvert == InitConvert /\ [][NextConvert]_vars

(***************************************************************************)
(* WallStatsPipe.  Lengths are in 32nds of an inch, the unit of the pipe's *)
(* deductions; transform is applied to the active wall of the store, read  *)
(* by value.                                                               *)
(***************************************************************************)
\* The Wall handed to the pipe: its frames with their doors, by value.
WallValue(st, fo, da, dobj) ==
  [k \in DOMAIN ActiveFrames(st) |->
     LET f == ActiveFrames(st)[k]
     IN [id |-> fo[f].id, frame_id |-> fo[f].frame_id,
         width |-> 32 * FrameWidth(fo[f]), height |-> 8 * fo[f].height,
         doors |-> [i \in DOMAIN da[fo[f].doors] |-> dobj[da[fo[f].doors][i]]]]]

\* The value JSON.stringify serializes into the cache key: id, frame_id,
\* width, height and, per door, its label alone.
CacheKey(frames) ==
  [k \in DOMAIN frames |->
     [id |-> frames[k].id, frame_id |-> frames[k].frame_id,
      width |-> frames[k].width, height |-> frames[k].height,
      doors |-> [i \in DOMAIN frames[k].doors |->
                   [label |-> frames[k].doors[i].label]]]]

\* The numbers a label can carry.
LabelNumbers == 0..(SetMax(StartValues) + MaxFrames * MaxDoors)

\* parseInt(label, 10) of a label "<n>" or "<n>P": << n >>, or << >> for NaN.
\* Stripping a trailing P first yields the same number.
parseInt(label) ==
  LET ns == {n \in LabelNumbers :
               label = ToString(n) \/ label = ToString(n) \o "P"}
  IN IF ns = {} THEN << >> ELSE << CHOOSE n \in ns : TRUE >>

\* doorType.match(/^p\d*/) || sp || lp || hopper || bin || hop... || td...
PipeParcelDoor(doorType) ==
  doorType \in {"p2", "sp", "lp", "hopper", "bin", "td"}

\* formatInches over the denominators from the i-th on; r is the fraction
\* in 32nds.  Math.round(r * d / 32) is (2 r d + 32) \div 64, and
\* |numer / d - r / 32| < 0.01 is 100 |32 numer - r d| < 32 d.
RECURSIVE FormatFrom(_, _, _)
FormatFrom(whole, r, denoms) ==
  IF denoms = << >>
  THEN ToString(whole) \o "." \o ToString((100 * r) \div 32) \o "\""
  ELSE LET d == Head(denoms)
           numer == (2 * r * d + 32) \div 64
           off == IF 32 * numer >= r * d THEN 32 * numer - r * d
                  ELSE r * d - 32 * numer
       IN IF 100 * off < 32 * d /\ (numer = 0 \/ (numer = 1 /\ d = 2) \/ d > 2)
          THEN IF numer = 0 THEN ToString(whole) \o "\""
               ELSE ToString(whole) \o " " \o ToString(numer) \o "/"
                      \o ToString(d) \o "\""
          ELSE FormatFrom(whole, r, Tail(denoms))

formatInches(value) ==
  FormatFrom(value \div 32, value % 32, << 32, 16, 8, 4, 2 >>)

\* The statistics of no wall and of a wall without frames.
EmptyStats ==
  [totalCabinets |-> 0, tenantCabinets |-> 0, parcelCabinets |-> 0,
   tenantRange |-> "", parcelRange |-> "", maxWidth |-> "", maxHeight |-> "",
   roMin |-> "", roMax |-> ""]

\* calculateStats(wall)
calculateStats(frames) ==
  IF frames = << >> THEN EmptyStats
  ELSE
  LET doors == Flatten([k \in DOMAIN frames |-> frames[k].doors])
      counted == SelectSeq(doors,
                   LAMBDA d : ~IsSpecialDoor(toLowerCase(d.door_type)))
      parcel == SelectSeq(counted,
                  LAMBDA d : PipeParcelDoor(toLowerCase(d.door_type)))
      tenant == SelectSeq(counted,
                  LAMBDA d : ~PipeParcelDoor(toLowerCase(d.door_type)))
      numbers(ds) == {parseInt(ds[i].label)[1] :
                        i \in {j \in DOMAIN ds : parseInt(ds[j].label) # << >>}}
      tenantNumbers == numbers(tenant)
      parcelNumbers == numbers(parcel)
      maxWidthNum == SumSeq([k \in DOMAIN frames |-> frames[k].width])
      maxHeightNum == SetMax({0} \cup {frames[k].height : k \in DOMAIN frames})
      doubleColumnCount ==
        Cardinality({k \in DOMAIN frames :
                       \E i \in DOMAIN frames[k].doors :
                          frames[k].doors[i].column = "right"})
      singleColumnCount == Len(frames) - doubleColumnCount
      roMaxDeduction ==
        IF doubleColumnCount > 0 /\ singleColumnCount = 0 THEN 30
        ELSE IF singleColumnCount > 0 /\ doubleColumnCount = 0 THEN 32
        ELSE 31
      roMinDeduction ==
        IF doubleColumnCount > 0 /\ singleColumnCount = 0 THEN 38
        ELSE IF singleColumnCount > 0 /\ doubleColumnCount = 0 THEN 40
        ELSE 39
  IN [totalCabinets |-> Len(frames),
      tenantCabinets |-> Len(tenant),
      parcelCabinets |-> Len(parcel),
      tenantRange |->
        IF tenantNumbers = {} THEN ""
        ELSE IF SetMin(tenantNumbers) = SetMax(tenantNumbers)
        THEN ToString(SetMin(tenantNumbers))
        ELSE ToString(SetMin(tenantNumbers)) \o "-"
               \o ToString(SetMax(tenantNumbers)),
      parcelRange |->
        IF parcelNumbers = {} THEN ""
        ELSE IF SetMin(parcelNumbers) = SetMax(parcelNumbers)
        THEN ToString(SetMin(parcelNumbers)) \o "P"
        ELSE ToString(SetMin(parcelNumbers)) \o "P-"
               \o ToString(SetMax(parcelNumbers)) \o "P",
      maxWidth |-> formatInches(maxWidthNum),
      maxHeight |-> formatInches(maxHeightNum),
      roMin |-> formatInches(maxWidthNum - roMinDeduction),
      roMax |-> formatInches(maxWidthNum - roMaxDeduction)]

\* transform(wall), wall being << >> for null or << frames >>: the cache
\* it leaves, a set of [key, stats] entries, and the statistics it returns.
transform(cache, wall) ==
  IF wall = << >> THEN [cache |-> cache, out |-> EmptyStats]
  ELSE LET cacheKey == CacheKey(wall[1])
       IN IF \E e \in cache : e.key = cacheKey
          THEN [cache |-> cache,
                out |-> (CHOOSE e \in cache : e.key = cacheKey).stats]
          ELSE LET stats == calculateStats(wall[1])
               IN [cache |-> cache \cup {[key |-> cacheKey, stats |-> stats]},
                   out |-> stats]

\* The wall the template hands to the pipe: the active wall, or null.
ActiveWallValue ==
  IF ActiveWallAt(state) = <<0, 0>> THEN << >>
  ELSE << WallValue(state, frameObj, doorsArr, doorObj) >>

\* The pipe applied to the active wall while no editor is open.
transformActiveWall ==
  /\ ~isEditorOpen
  /\ probe' = transform(probe.cache, ActiveWallValue)
  /\ probeOnly

\* clearCache()
clearCache ==
  /\ probe.cache # {}
  /\ probe' = [probe EXCEPT !.cache = {}]
  /\ probeOnly

\* The palette the editor offers here: a parcel door of two units.
StatsPalette == {"p2"}

InitStats == InitComponent /\ probe = [cache |-> {}, out |-> NotApplied]

NextStats ==
  \/ \E d \in DOMAIN Catalog : handleDropUpTo(d, 0, 1)
  \/ selectFrame(1)
  \/ openCabinetEditor
  \/ onClose
  \/ onSave
  \/ keydown("Delete")
  \/ \E k \in ShapeArgs : clickDoor(k)
  \/ \E name \in StatsPalette, u \in UnitArgs : startDrag(name, << "left", u >>)
  \/ transformActiveWall
  \/ clearCache

SpecStats == InitStats /\ [][NextStats]_vars

(***************************************************************************)
(* Properties of the store.                                                *)
(***************************************************************************)
heapVars == << frameObj, doorsArr, doorObj >>

\* The wall is the one wall of the level.
OnlyWallOf(st, levelId, wallId) ==
  LET li == LevelIndex(st, levelId)
  IN /\ li # 0
     /\ Len(st.levels[li].walls) = 1
     /\ st.levels[li].walls[1].wall_id = wallId

\* The ids of the frames the wall holds; empty when no wall has the id.
WallFrameIds(st, fo, wallId) ==
  {fo[FramesInOrder(st)[k]].id :
     k \in {j \in DOMAIN FramesInOrder(st) :
              \E i \in DOMAIN st.levels :
                \E w \in DOMAIN st.levels[i].walls :
                  /\ st.levels[i].walls[w].wall_id = wallId
                  /\ FramesInOrder(st)[j] \in Range(st.levels[i].walls[w].frames)}}

\* The call names a level, a wall or a frame that does not exist.
UnknownId(call) ==
  \/ /\ call.op \in {"removeLevel", "addWall", "setActiveLevel"}
     /\ call.a \notin LevelIds(state)
  \/ /\ call.op = "removeWall"
     /\ (call.a \notin LevelIds(state) \/ call.b \notin AllWallIds(state))
  \/ /\ call.op = "setActiveWall"
     /\ call.a \notin AllWallIds(state)
  \/ /\ call.op \in {"removeFrame", "substituteDoor"}
     /\ call.b \notin WallFrameIds(state, frameObj, call.a)

\* C1: in every reachable state active_level_id is the id of an existing
\* level and active_wall_id is the id of a wall of that level.
C1_ActiveCursorsValid ==
  LET li == LevelIndex(state, state.active_level_id)
  IN li # 0 /\ WallIndex(state.levels[li], state.active_wall_id) # 0

\* C3: a store operation that names a level, wall or frame that does not
\* exist is rejected: it leaves the state and every object as they were and
\* gives the caller a failure signal (false or an exception).
C3_UnknownIdRejected ==
  [][UnknownId(lastCall') =>
       /\ state' = state
       /\ UNCHANGED heapVars
       /\ lastCall'.result \in {"false", "throw"}]_vars

\* C4: removeWall on the only wall of its level returns false and leaves
\* the state as it was, and every level has at least one wall in every
\* reachable state.
C4_OnlyWallStays ==
  /\ [](\A i \in DOMAIN state.levels : Len(state.levels[i].walls) >= 1)
  /\ [][lastCall'.op = "removeWall"
          /\ OnlyWallOf(state, lastCall'.a, lastCall'.b) =>
            /\ lastCall'.result = "false"
            /\ state' = state
            /\ UNCHANGED << heapVars, storage >>]_vars

\* removeWall was just refused for the one wall of a level.
C4_Witness ==
  /\ lastCall.op = "removeWall"
  /\ lastCall.result = "false"
  /\ OnlyWallOf(state, lastCall.a, lastCall.b)

\* C5: level 0 exists in every reachable state; removeLevel(0) returns
\* false and changes nothing, and so does removing the last remaining level.
C5_LevelZeroStays ==
  /\ [](0 \in LevelIds(state))
  /\ [][lastCall'.op = "removeLevel"
          /\ (lastCall'.a = 0 \/ Len(state.levels) = 1) =>
            /\ lastCall'.result = "false"
            /\ state' = state
            /\ UNCHANGED << heapVars, storage >>]_vars

\* removeLevel(0) was just refused although another level exists.
C5_Witness ==
  /\ lastCall.op = "removeLevel"
  /\ lastCall.a = 0
  /\ lastCall.result = "false"
  /\ Len(state.levels) > 1

\* C6: when the active wall is removed, active_wall_id becomes the id of
\* the first remaining wall of its level; when the active level is removed,
\* active_level_id becomes the id of the first remaining level and
\* active_wall_id the id of that level's first wall.
C6_CursorsFallBack ==
  [][/\ (/\ lastCall'.op = "removeWall"
         /\ lastCall'.result = "true"
         /\ lastCall'.b = state.active_wall_id
         /\ LevelIndex(state, lastCall'.a) # 0
         /\ WallIndex(state.levels[LevelIndex(state, lastCall'.a)],
                      lastCall'.b) # 0)
        => state'.active_wall_id =
             state'.levels[LevelIndex(state', lastCall'.a)].walls[1].wall_id
     /\ (/\ lastCall'.op = "removeLevel"
         /\ lastCall'.result = "true"
         /\ lastCall'.a = state.active_level_id)
        => /\ state'.active_level_id = state'.levels[1].level_id
           /\ state'.active_wall_id = state'.levels[1].walls[1].wall_id]_vars

\* The active wall was just removed from a level that keeps two walls, and
\* the cursor is on the first of them.
C6_Witness ==
  /\ lastCall.op = "removeWall"
  /\ lastCall.result = "true"
  /\ lastCall.active[2] = lastCall.b
  /\ lastCall.b \notin AllWallIds(state)
  /\ LevelIndex(state, lastCall.a) # 0
  /\ Len(state.levels[LevelIndex(state, lastCall.a)].walls) = 2
  /\ state.active_wall_id =
       state.levels[LevelIndex(state, lastCall.a)].walls[1].wall_id

\* The calls that end without a setState.
Rejected(call) == call.result \in {"false", "throw", "none"}

\* The setState calls a handler makes.
Commits(call) ==
  IF Rejected(call) THEN 0
  ELSE IF call.op = "updateAutoNumbering" THEN 3 ELSE 1

\* C7 as amended: every store mutation that commits delivers the new
\* snapshot exactly once to each current subscriber before it returns, so
\* an action delivers as many snapshots as it makes mutations (one for a
\* store operation, three for auto-numbering), the last being the installed
\* state; a rejected operation delivers none.
C7_OneDeliveryPerCommit ==
  [][lastCall'.op \notin {"subscribe", "unsubscribe"} =>
       \A s \in subscribers :
         /\ notified'[s] = Commits(lastCall')
         /\ notified'[s] > 0 => lastSeen'[s] = state']_vars

\* Auto-numbering has just delivered three snapshots to a subscriber.
C7_Witness ==
  /\ subscribers # {}
  /\ lastCall.op = "updateAutoNumbering"
  /\ lastCall.result = "ok"
  /\ \A s \in subscribers : notified[s] = 3 /\ lastSeen[s] = state

\* C7: every successful store operation and every user-level action built
\* from them, auto-numbering included, notifies each current subscriber
\* exactly once with the new snapshot; a rejected operation notifies nobody.
C7_OneDeliveryPerAction ==
  [][lastCall'.op \notin {"subscribe", "unsubscribe"} =>
       \A s \in subscribers :
         /\ notified'[s] = IF Rejected(lastCall') THEN 0 ELSE 1
         /\ notified'[s] > 0 => lastSeen'[s] = state']_vars

(***************************************************************************)
(* Properties of the cabinet editor.                                       *)
(***************************************************************************)
\* The units [position, position + unitSize) of the two doors intersect.
Intersect(d1, d2) ==
  /\ d1.position < d2.position + UnitsOf(d2)
  /\ d2.position < d1.position + UnitsOf(d1)

\* The doors of frame f, by value, in array order.
DoorsOf(fo, da, dobj, f) ==
  [i \in DOMAIN da[fo[f].doors] |-> dobj[da[fo[f].doors][i]]]

\* C2: for every wall, frame and column of the store, no two distinct doors
\* of the column have intersecting [position, position + unitSize) ranges.
C2_NoOverlap ==
  \A f \in Range(FramesInOrder(state)) :
    LET doors == DoorsOf(frameObj, doorsArr, doorObj, f)
    IN \A i, j \in DOMAIN doors :
         (i < j /\ ColumnOf(doors[i]) = ColumnOf(doors[j]))
           => ~Intersect(doors[i], doors[j])

\* C8: once the editor is closed without saving, the frame the store holds
\* is exactly as it was before the editor was opened.
C8_CloseLeavesFrame ==
  (lastCall.op = "onClose" /\ openedContent # <<>>) =>
    LET f == FrameById(state, frameObj, openedContent[1].id)
    IN f # Null =>
         SerializeFrame(f, frameObj, doorsArr, doorObj) = openedContent[1]

\* The doors whose fields the step changes.
MovedDoors ==
  {r \in DOMAIN doorObj : r \in DOMAIN doorObj' /\ doorObj'[r] # doorObj[r]}

\* C9: a swap succeeds only if both doors are in the same column, both stay
\* within [0, totalUnits) at their new positions and no third door occupies
\* a unit either of them covers there; a successful swap exchanges exactly
\* the two position values, and a failed one changes no door.
C9_SwapRule ==
  [][lastCall'.op = "dragDoor" =>
       /\ frameObj' = frameObj
       /\ doorsArr' = doorsArr
       /\ DOMAIN doorObj' = DOMAIN doorObj
       /\ IF lastCall'.result = "true"
          THEN \/ MovedDoors = {}
               \/ \E r1, r2 \in MovedDoors :
                    /\ r1 # r2
                    /\ MovedDoors = {r1, r2}
                    /\ doorObj'[r1] =
                         [doorObj[r1] EXCEPT !.position = doorObj[r2].position]
                    /\ doorObj'[r2] =
                         [doorObj[r2] EXCEPT !.position = doorObj[r1].position]
                    /\ ColumnOf(doorObj[r1]) = ColumnOf(doorObj[r2])
                    /\ \A r \in {r1, r2} :
                         /\ doorObj'[r].position >= 0
                         /\ doorObj'[r].position + UnitsOf(doorObj'[r])
                              <= EditedUnits
                         /\ \A t \in Range(EditedDoors) \ {r1, r2} :
                              ColumnOf(doorObj[t]) = ColumnOf(doorObj[r])
                                => ~Intersect(doorObj'[t], doorObj'[r])
          ELSE MovedDoors = {}]_vars

\* The doors at the indices R of a door list were replaced by the one door
\* that now ends the list, put at their lowest position.
ReplacedBy(before, after, R) ==
  LET kept == [k \in 1..(Len(after) - 1) |-> after[k]]
      stay == SelectSeq([i \in DOMAIN before |-> i], LAMBDA i : i \notin R)
  IN /\ R # {}
     /\ Len(after) >= 1
     /\ kept = [k \in DOMAIN stay |-> before[stay[k]]]
     /\ after[Len(after)].position = SetMin({before[i].position : i \in R})

\* What a palette drop onto doors of the edited frame leaves: the doors
\* before and after, and whether they are as a replace or a refusal leaves
\* them.
ReplaceEffect ==
  LET before == DoorsOf(frameObj, doorsArr, doorObj, editingFrame)
      after == DoorsOf(frameObj', doorsArr', doorObj', editingFrame')
  IN IF lastCall'.result = "replaced"
     THEN \E R \in SUBSET DOMAIN before :
            /\ ReplacedBy(before, after, R)
            /\ SumSeq([i \in DOMAIN before |->
                         IF i \in R THEN UnitsOf(before[i]) ELSE 0])
                 = lastCall'.b
            /\ UnitsOf(after[Len(after)]) = lastCall'.a
     ELSE lastCall'.result = "rejected" => after = before

CanPlace(column, startUnit, unitSize, totalUnits, arr, dobj) ==
  \A x \in startUnit..(startUnit + unitSize - 1) :
    /\ x < totalUnits
    /\ \A i \in DOMAIN arr :
         LET d == dobj[arr[i]]
         IN (ColumnOf(d) = column /\ d.position <= x
             /\ x < d.position + UnitsOf(d))
              => (startUnit <= d.position
                  /\ d.position + UnitsOf(d) <= startUnit + unitSize)

\* C11: a palette door of unit size u dropped at start unit s of a column is
\* accepted if and only if every unit of [s, s+u) lies inside the column and
\* is unoccupied or occupied by a door whose whole range lies in [s, s+u);
\* a drop that is not accepted changes nothing.
C11_DropRule ==
  [][\A name \in PaletteNames, c \in {"left", "right"}, u \in UnitArgs :
       startDrag(name, << c, u >>) =>
         LET fits == CanPlace(c, u, getDoorUnits(name), EditedUnits,
                              EditedDoors, doorObj)
         IN /\ (lastCall'.result \in {"created", "replaced"}) <=> fits
            /\ ~fits => UNCHANGED heapVars]_vars

\* The units of a drawn column of the edited frame that no door covers.
UncoveredUnits(column, totalUnits, arr, dobj) ==
  {x \in 0..(totalUnits - 1) :
     \A i \in DOMAIN arr :
       ~Covers(dobj[arr[i]], << column, x >>)}

SomeUnitEmpty ==
  \E p \in PointerArgs :
    p[2] \in UncoveredUnits(p[1], EditedUnits, EditedDoors, doorObj)

\* C12: while a unit slot of a column of the edited frame is empty, onSave
\* is refused: it emits no frame (the editor stays open on the same frame),
\* the store's state and its frames are left as they are and no subscriber
\* is notified.
C12_SaveRefused ==
  [][(onSave /\ SomeUnitEmpty) =>
       /\ lastCall'.result = "refused"
       /\ isEditorOpen' /\ editingFrame' = editingFrame
       /\ state' = state /\ UNCHANGED heapVars
       /\ notified' = notified]_vars

C12_Witness ==
  /\ lastCall.op = "onSave" /\ lastCall.result = "refused"
  /\ isEditorOpen /\ SomeUnitEmpty

(***************************************************************************)
(* Properties of the frame drag.                                           *)
(***************************************************************************)
\* The ids of the frames of the active wall, left to right.
WallOrder(st, fo) ==
  LET frames == ActiveFrames(st)
  IN [i \in DOMAIN frames |-> fo[frames[i]].id]

\* Twice the midpoint of the group drawn for the frame with the id.
Midpoint2(st, fo, id) ==
  LET groups == renderFrames(ActiveFrames(st), fo)
      g == groups[FindIndex(groups, LAMBDA h : h.frameId = id)]
  IN 2 * g.x + g.width

\* order is rest with F put before the first frame whose midpoint is right
\* of x, or at the end when there is none.
InsertedByMidpoint(order, rest, F, x2, mid2(_)) ==
  \E j \in 0..Len(rest) :
    /\ order = SubSeq(rest, 1, j) \o << F >> \o SubSeq(rest, j + 1, Len(rest))
    /\ \A i \in 1..j : mid2(rest[i]) <= x2
    /\ j < Len(rest) => mid2(rest[j + 1]) > x2

\* C13: ending a drag of frame F at x yields the wall order obtained by
\* removing F and inserting it before the first remaining frame, left to
\* right, whose midpoint is to the right of x, or at the end when there is
\* none; the index counts in the list without F, the other frames keep
\* their order and no frame is lost or duplicated.
C13_ReorderRule ==
  [][\A onStage \in BOOLEAN :
       dragend(onStage) =>
         LET before == WallOrder(state, frameObj)
             F == drag.group
             rest == SelectSeq(before, LAMBDA id : id # F)
         IN /\ InsertedByMidpoint(WallOrder(state', frameObj'), rest, F,
                                  2 * drag.x,
                                  LAMBDA id : Midpoint2(state, frameObj, id))
            /\ Len(WallOrder(state', frameObj')) = Len(before)
            /\ Range(WallOrder(state', frameObj')) = Range(before)]_vars

\* A drag of the first of three frames has ended with the frame last.
C13_Witness ==
  /\ lastCall.op = "dragend" /\ lastCall.result = "ok"
  /\ lastCall.a = 0 /\ lastCall.b = 2
  /\ Len(WallOrder(state, frameObj)) = MaxDragFrames
  /\ WallOrder(state, frameObj)[MaxDragFrames] = selectedFrameId

\* Frames A, B, C at 0, 100 and 220, each 100 wide; the frame at index 0
\* is let go at x = 250.
Scenario14 ==
  /\ probe.groups[2].x = 100 /\ probe.groups[3].x = 220
  /\ probe.dragStartIndex = 0 /\ probe.x = 250
  /\ probe.out # NotApplied

\* C14: with frames A, B, C at x 0, 100, 220, each of width 100, dragging
\* the frame at index 0 to x = 250 yields the order [B, A, C]: the midpoint
\* of C, 270, is to the right of 250.
C14_ScenarioOrder == Scenario14 => probe.out = << "B", "A", "C" >>

C14_Witness == Scenario14 /\ probe.out[2] = "A"

\* C14 as stated: the scenario yields the order [B, C, A].
C14_ScenarioAtEnd == Scenario14 => probe.out = << "B", "C", "A" >>

\* C15: between drag-start and drag-end the store's frame order never
\* changes, dragmove moving only the preview marker; the reorder is committed
\* once, in a single store update, on drag-end; and a drag that is abandoned,
\* the frame being let go outside the stage, leaves the order as it was.
C15_DragCommit ==
  [][/\ (drag.isReordering /\ drag'.isReordering) =>
          /\ state' = state /\ storage' = storage /\ UNCHANGED heapVars
          /\ \A s \in subscribers : notified'[s] = 0
     /\ \A onStage \in BOOLEAN :
          dragend(onStage) =>
            /\ WallOrder(state', frameObj') # WallOrder(state, frameObj)
                 => \A s \in subscribers : notified'[s] = 1
            /\ ~onStage
                 => WallOrder(state', frameObj') = WallOrder(state, frameObj)]_vars

(***************************************************************************)
(* Properties of the numbering.                                            *)
(***************************************************************************)
\* The doors of the frames in the order of the rule: frame by frame in wall
\* order, the left column's doors by ascending position, then the right
\* column's.
PositionOrder(fs, fo, da, dobj) ==
  Flatten([k \in DOMAIN fs |->
             SortBy(getLeftDoorsOf(da[fo[fs[k]].doors], dobj), PositionKey(dobj))
               \o SortBy(getRightDoorsOf(da[fo[fs[k]].doors], dobj),
                         PositionKey(dobj))])

\* The label the rule gives the i-th door visited: none for a special
\* door, the next parcel number with P for a parcel door, the next tenant
\* number for any other.
RuleLabel(order, i, tenantStart, parcelStart, dobj) ==
  LET type(j) == toLowerCase(dobj[order[j]].door_type)
      parcelsBefore ==
        Cardinality({j \in 1..(i - 1) :
                       ~IsSpecialDoor(type(j))
                       /\ ~IsTenantDoor(type(j)) /\ IsParcelDoor(type(j))})
      othersBefore ==
        Cardinality({j \in 1..(i - 1) :
                       ~IsSpecialDoor(type(j))
                       /\ (IsTenantDoor(type(j)) \/ ~IsParcelDoor(type(j)))})
  IN IF IsSpecialDoor(type(i)) THEN ""
     ELSE IF ~IsTenantDoor(type(i)) /\ IsParcelDoor(type(i))
     THEN ToString(parcelStart + parcelsBefore) \o "P"
     ELSE ToString(tenantStart + othersBefore)

\* The doors of the active wall carry the labels of the rule.
LabelledByRule(st, fo, da, dobj, tenantStart, parcelStart) ==
  LET order == PositionOrder(ActiveFrames(st), fo, da, dobj)
  IN \A i \in DOMAIN order :
       dobj[order[i]].label
         = RuleLabel(order, i, tenantStart, parcelStart, dobj)

\* C16: auto-numbering visits the frames in wall order and, within a frame,
\* the left doors then the right doors in ascending position order; it
\* clears the label of md, ms, bms and om doors, gives the k-th parcel door
\* parcelStart + k - 1 followed by P and the k-th other door
\* tenantStart + k - 1, a tenant code never counting as a parcel.
C16_NumberingRule ==
  [][\A t \in StartValues, v \in StartValues :
       (updateAutoNumbering(t, v) /\ lastCall'.result = "ok") =>
         LabelledByRule(state', frameObj', doorsArr', doorObj', t, v)]_vars

\* A handler that changes the active wall has just committed: a cabinet
\* added, a frame removed, the frames reordered or the edited cabinet saved.
WallMutated ==
  \/ lastCall.op = "handleDrop" /\ lastCall.result = "ok"
  \/ lastCall.op = "keydown" /\ lastCall.b = 1
  \/ lastCall.op = "dragend" /\ lastCall.result = "ok"
  \/ lastCall.op = "onSave" /\ lastCall.result = "saved"

\* C17: after a wall mutation has committed, the doors of the wall carry
\* the labels auto-numbering yields for the present order and the stored
\* start values.
C17_RenumberedAfterMutation ==
  (/\ WallMutated
   /\ state.tenant_num_start # Undefined
   /\ state.parcel_num_start # Undefined)
    => LabelledByRule(state, frameObj, doorsArr, doorObj,
                      state.tenant_num_start, state.parcel_num_start)

\* The labels and the start values resetNumbering is to leave.
ResetDone(st, fo, da, dobj, before) ==
  /\ \A k \in DOMAIN ActiveFrames(st) :
       \A i \in DOMAIN da[fo[ActiveFrames(st)[k]].doors] :
         LET door == dobj[da[fo[ActiveFrames(st)[k]].doors][i]]
         IN ~IsSpecialDoor(toLowerCase(door.door_type)) => door.label = ""
  /\ st.tenant_num_start = before.tenant_num_start
  /\ st.parcel_num_start = before.parcel_num_start

\* C18: resetNumbering clears the label of every door that is not special
\* and leaves the tenant and parcel start values as they are; a second
\* reset right after the first changes nothing.
C18_ResetIdempotent ==
  [][(resetNumbering /\ lastCall'.result = "ok") =>
       /\ ResetDone(state', frameObj', doorsArr', doorObj', state)
       /\ (lastCall.op = "resetNumbering" /\ lastCall.result = "ok")
            => (state' = state /\ UNCHANGED heapVars)]_vars

\* A reset of a wall that holds a cabinet and was numbered before.
C18_Witness ==
  /\ lastCall.op = "resetNumbering" /\ lastCall.result = "ok"
  /\ state.tenant_num_start # Undefined
  /\ ActiveFrames(state) # <<>>
  /\ ResetDone(state, frameObj, doorsArr, doorObj, state)

(***************************************************************************)
(* Properties of the persistence.                                          *)
(***************************************************************************)
\* The two objects have the same members with the same values, a member
\* that is absent counting as undefined.
SameMembers(a, b) ==
  \A k \in DOMAIN a \cup DOMAIN b : Read(a, k) = Read(b, k)

StructurallyEqual(a, b) ==
  /\ \A k \in (DOMAIN a \cup DOMAIN b) \ {"config"} : Read(a, k) = Read(b, k)
  /\ SameMembers(a["config"][1], b["config"][1])

\* C19: a state that is persisted and loaded back is structurally equal to
\* the state persisted, for saveToStorage with loadFromStorage and for
\* exportStateForProject with loadStateFromProject.
C19_RoundTrip ==
  probe.out # NotApplied =>
    /\ probe.out[2] # << "null" >>
    /\ StructurallyEqual(probe.out[2], probe.state)

(***************************************************************************)
(* Properties of measure mode.                                             *)
(***************************************************************************)
\* C20: in measure mode the first click records point A; the second click
\* records point B and finalizes exactly one measurement, from A to B; a
\* third click starts a new measurement with its point as the first and
\* keeps every measurement finalized before.
C20_TwoClickMeasure ==
  [][\A clickPos \in MeasurePoints :
       handleMeasureClick(clickPos, MaxMeasurements) =>
         LET done == measure.completedMeasurements.lines
         IN IF measure.measureFirstPoint = Null
            THEN /\ measure'.measureFirstPoint = clickPos
                 /\ measure'.measureSecondPoint = Null
                 /\ measure'.completedMeasurements.lines = done
            ELSE IF measure.measureSecondPoint = Null
            THEN /\ measure'.measureFirstPoint = measure.measureFirstPoint
                 /\ measure'.measureSecondPoint = clickPos
                 /\ measure'.completedMeasurements.lines
                      = Append(done, << measure.measureFirstPoint, clickPos >>)
            ELSE /\ measure'.measureFirstPoint = clickPos
                 /\ measure'.measureSecondPoint = Null
                 /\ measure'.completedMeasurements.lines = done]_vars

\* The third click has been made: one measurement is finalized and a new
\* one has its first point.
C20_Witness ==
  /\ measure.isMeasuringMode
  /\ lastCall.op = "handleMeasureClick"
  /\ Len(measure.completedMeasurements.lines) = 1
  /\ measure.measureFirstPoint # Null
  /\ measure.measureSecondPoint = Null

(***************************************************************************)
(* Properties of the snap points.                                          *)
(***************************************************************************)
\* The candidates of the probe's layer and the least of their distances.
Candidates == Range(allSnapPoints(probe.groups))

LeastDist2 == SetMin({Dist2(probe.pos, c) : c \in Candidates})

\* A candidate at the least distance is returned when the square of that
\* distance is at most limit2, and none otherwise.
SnapsWithin(limit2) ==
  probe.out # NotApplied =>
    IF LeastDist2 <= limit2
    THEN /\ probe.out[2] # << >>
         /\ \E c \in Candidates :
              /\ probe.out[2][1] = [x2 |-> c.x2, y2 |-> c.y2]
              /\ Dist2(probe.pos, c) = LeastDist2
    ELSE probe.out[2] = << >>

\* C21: snapping returns a candidate point, among the 9 of every frame
\* rectangle, with the smallest Euclidean distance to the cursor if that
\* distance is less than the threshold of 30 px, and none otherwise.
C21_SnapBelowThreshold == SnapsWithin(Threshold2 - 1)

\* C21 as stated: the nearest candidate is returned when its distance is
\* within the threshold, a distance of exactly 30 px included.
C21_SnapWithinThreshold == SnapsWithin(Threshold2)

\* The cursor is 25 px from the top-left corner of the first group, askew,
\* and that corner is returned.
C21_Witness ==
  /\ probe.out # NotApplied
  /\ probe.pos = [x2 |-> 2 * 26, y2 |-> 2 * 93]
  /\ LeastDist2 = 4 * 25 * 25
  /\ probe.out[2] = << [x2 |-> 2 * 50, y2 |-> 2 * 100] >>

(***************************************************************************)
(* Properties of the ownership of doors.                                   *)
(***************************************************************************)
\* C22: no doors list and no door object is shared by two frames of the
\* project.
C22_DoorsOwned ==
  \A f1, f2 \in FrameRefsOf(state) :
    f1 # f2 =>
      /\ frameObj[f1].doors # frameObj[f2].doors
      /\ Range(doorsArr[frameObj[f1].doors])
           \cap Range(doorsArr[frameObj[f2].doors]) = {}

(***************************************************************************)
(* Properties of the wall ids.                                             *)
(***************************************************************************)
\* The number of walls of the project.
WallCount(st) == SumSeq([i \in DOMAIN st.levels |-> Len(st.levels[i].walls)])

\* C23: no two walls of the project, in the same level or in different
\* levels, have the same wall_id.
C23_WallIdsUnique == Cardinality(AllWallIds(state)) = WallCount(state)

\* A wall has just been added to a project of two levels from which a wall
\* with a smaller id was removed before.
C23_Witness ==
  /\ lastCall.op \in {"addWall", "addLevel"}
  /\ lastCall.result = "ok"
  /\ Len(state.levels) >= 2
  /\ WallCount(state) >= 2
  /\ \E w \in 0..SetMax(AllWallIds(state)) : w \notin AllWallIds(state)

(***************************************************************************)
(* Properties of substituteDoor.                                           *)
(***************************************************************************)
\* The frames of the snapshot by value, level by level and wall by wall.
FramesByValue(st, fo, da, dobj) ==
  LET s == Serialize(st, fo, da, dobj)
  IN Flatten([i \in DOMAIN s.levels |->
                Flatten([j \in DOMAIN s.levels[i].walls |->
                           [k \in DOMAIN s.levels[i].walls[j].frames |->
                              [wall_id |-> s.levels[i].walls[j].wall_id,
                               frame |-> s.levels[i].walls[j].frames[k]]]])])

\* C24: substituteDoor changes the substitute field of at most one door,
\* a door of the frame it is given; it changes no door's position, column
\* or door_type, no other door of that frame, a door at the same position
\* in the other column included, and no other frame.
C24_SubstituteOneDoor ==
  [][\A f \in FrameIdArgs, p \in PositionArgs, t \in SubstituteTypes :
       substituteDoor(0, f, p, t) =>
         LET before == FramesByValue(state, frameObj, doorsArr, doorObj)
             after == FramesByValue(state', frameObj', doorsArr', doorObj')
         IN /\ Len(after) = Len(before)
            /\ \A k \in DOMAIN before :
                 LET a == before[k].frame
                     b == after[k].frame
                     changed == {n \in DOMAIN a.doors : b.doors[n] # a.doors[n]}
                 IN /\ [b EXCEPT !.doors = a.doors] = a
                    /\ DOMAIN b.doors = DOMAIN a.doors
                    /\ \A n \in DOMAIN a.doors :
                         [b.doors[n] EXCEPT !.substitute = a.doors[n].substitute]
                           = a.doors[n]
                    /\ Cardinality(changed) <= 1
                    /\ (before[k].wall_id # 0 \/ a.id # f) => changed = {}]_vars

(***************************************************************************)
(* Properties of a new project.                                            *)
(***************************************************************************)
\* C25: after resetForNewProject the store holds exactly the initial state,
\* one level 0 with one empty wall 0 and the active pointers 0 and 0, and
\* no value of the project before, its tenant and parcel numbering start
\* values included.
C25_ResetIsInitial ==
  [][resetForNewProject => state' = INITIAL_STATE]_vars

(***************************************************************************)
(* Properties of a removal elsewhere.                                      *)
(***************************************************************************)
CursorsKept ==
  /\ state'.active_level_id = state.active_level_id
  /\ state'.active_wall_id = state.active_wall_id

\* C26: removing a wall other than the active wall, or a level other than
\* the active level, leaves active_level_id and active_wall_id unchanged.
C26_RemovalElsewhereKeepsCursors ==
  [][/\ \A l \in LevelArgs, w \in WallArgs :
          removeWall(l, w) /\ w # state.active_wall_id => CursorsKept
     /\ \A l \in LevelArgs :
          removeLevel(l) /\ l # state.active_level_id => CursorsKept]_vars

(***************************************************************************)
(* Properties of the keyboard.                                             *)
(***************************************************************************)
\* The ids of the frames of the project, wall by wall.
FrameIdsInOrder(st, fo) ==
  [i \in DOMAIN FramesInOrder(st) |-> fo[FramesInOrder(st)[i]].id]

\* C27: while the cabinet editor is open, a Delete or Backspace key press
\* removes no frame from a wall: the walls hold the same frames after it,
\* and the pointers and the numbering start values are the same.
C27_DeleteKeepsFrames ==
  [][keydown("Delete") /\ isEditorOpen =>
       /\ FrameIdsInOrder(state', frameObj') = FrameIdsInOrder(state, frameObj)
       /\ [state' EXCEPT !.levels = state.levels] = state]_vars

(***************************************************************************)
(* Properties of saving a packed frame.                                    *)
(***************************************************************************)
\* The doors of one column cover every unit 0..totalUnits-1 once.
ColumnPacked(doors, totalUnits) ==
  /\ \A i \in DOMAIN doors :
       doors[i].position >= 0
         /\ doors[i].position + UnitsOf(doors[i]) <= totalUnits
  /\ \A i, j \in DOMAIN doors : i < j => ~Intersect(doors[i], doors[j])
  /\ SumSeq([i \in DOMAIN doors |-> UnitsOf(doors[i])]) = totalUnits

\* Every column of the edited frame that has a door is packed.
EditedFramePacked ==
  LET doors == DoorsOf(frameObj, doorsArr, doorObj, editingFrame)
      left == SelectSeq(doors, LAMBDA d : ColumnOf(d) = "left")
      right == SelectSeq(doors, LAMBDA d : ColumnOf(d) = "right")
  IN /\ doors # << >>
     /\ left # << >> => ColumnPacked(left, EditedUnits)
     /\ right # << >> => ColumnPacked(right, EditedUnits)

\* C28: a frame whose every existing column is fully packed can be saved
\* from the editor: onSave is not refused and emits the frame, for a
\* single-column frame too.
C28_PackedFrameSaves ==
  [][(onSave /\ EditedFramePacked) => lastCall'.result # "refused"]_vars

(***************************************************************************)
(* Properties of the position conversion.                                  *)
(***************************************************************************)
\* C29: for a column contiguous from unit 0, denormalizeDoorPositions
\* followed by normalizeDoorPositions restores every door's unit offset;
\* for a column stored with the indices 0..n-1, normalize followed by
\* denormalize restores the indices; the doors keep their array order.
C29_ConversionRoundTrip ==
  probe.out # NotApplied => probe.out[3] = probe.doors

\* Three doors of one column, the double door first, stored out of order
\* with unit offsets: the indices differ from the offsets and the offsets
\* come back.
C29_Witness ==
  /\ probe.out # NotApplied
  /\ probe.out[1] = "denormalize"
  /\ Len(probe.doors) = MaxProbeDoors
  /\ \A i \in DOMAIN probe.doors : ColumnOf(probe.doors[i]) = "left"
  /\ probe.doors[1].position > probe.doors[2].position
  /\ probe.out[2] # probe.doors
  /\ probe.out[3] = probe.doors

(***************************************************************************)
(* Properties of WallStatsPipe.                                            *)
(***************************************************************************)
\* C30: whenever the pipe is applied to the active wall, it returns the
\* statistics calculateStats computes for that wall's content; a cached
\* result computed for other door types or door columns is not returned.
C30_StatsOfCurrentWall ==
  [][transformActiveWall =>
       probe'.out = IF ActiveWallValue = << >> THEN EmptyStats
                    ELSE calculateStats(ActiveWallValue[1])]_vars

====
